---- MODULE Spec2Model ----
(***************************************************************************)
(* Shared-memory ring buffer of the imaging service                        *)
(* (SharedMemory, src/unnamed/part_001 lines 1..1830, the variant with     *)
(* writeFrameTimeout and atomic control-block fields).                     *)
(*                                                                         *)
(* One creator handle (the producer), one attached handle used by a        *)
(* sequential reader (readNextFrame) and one attached handle used by a     *)
(* latest-frame reader (readLatestFrame) share one segment.  Every load or *)
(* store of a control-block atomic, the header fill, the memcpy and the    *)
(* header read are separate steps, so that every interleaving of the three *)
(* threads is explored.                                                    *)
(*                                                                         *)
(* Sizes are in cells: a frame header is one cell, a pixel byte is one     *)
(* cell, the control block and the metadata area are one cell each.  The   *)
(* data region of the segment is a flat array of cells, as in the mapping. *)
(***************************************************************************)
EXTENDS Integers, Sequences, FiniteSets, TLC

\* ---------------------------------------------------------------- bounds
\* Largest segment size explored (config_.size), in cells.
MaxShmSize == 9
\* Writes are started only while writeIndex is below this cap.
MaxWrites == 3
\* Writes are started only while droppedFrames is below this cap.
MaxDrops == 1

\* ------------------------------------------------------- scaled geometry
\* sizeof(ControlBlock)
ControlBlockSize == 1
\* metadataAreaSize = 4096
MetadataAreaSize == 1
\* sizeof(FrameHeader)
SizeofFrameHeader == 1
\* 1920 * 1080 * 2, the pixel bytes of the estimated frame
EstimatedPixels == 2
\* Width of the uint64_t arithmetic of the indices (scaled).
U64Modulus == 1073741824
\* What a byte of a frame header looks like when it is read as a pixel byte.
HeaderAsPixel == 255

\* dataOffset = controlBlockSize + metadataAreaSize
DataOffsetOf == ControlBlockSize + MetadataAreaSize
\* frameSlotSize = estimatedFrameSize = 1920*1080*2 + sizeof(FrameHeader)
FrameSlotSizeOf == EstimatedPixels + SizeofFrameHeader
\* A pixel buffer one cell longer than the pixel room of a slot.
OversizePixels == EstimatedPixels + 1

VARIABLES
    shmSize,             \* impl_->size of the created segment
    dropFramesWhenFull,  \* config_.dropFramesWhenFull of the creator handle
    seg,                 \* the named shared-memory object of the system
    hnd,                 \* a SharedMemory handle: its Config, its Impl fields, its initialize call
    att,                 \* a second handle, of another process, attaching with create = false
    writeIndex, readIndex, frameCount,
    totalFramesWritten, totalFramesRead, droppedFrames,   \* ControlBlock
    mem,                 \* the cells of the data region, by offset
    pcW, wFrame, wTimeout, wIdx, wRd, wStatus,            \* writeFrameTimeout
    pcR, rWait, rIdx, rWr, rCnt, rHdr, rView, rStatus,    \* readNextFrame
    lStatus,                                              \* readLatestFrame
    pcL, lWr, lHdr, lView,                                \* readLatestFrame, step by step
    published,           \* history: the frames whose writeIndex store was made
    writer,              \* history: the write number that last stored each cell
    wEntry, rEntry,      \* history: the counters when the running call began
    wDirty,              \* history: the running write call changed an index or a slot
    rClean,              \* history: the slot read was written by the write of its index
    seen,                \* history: sequenceNumber of each frame returned OK by readNextFrame
    lClean,              \* history: the slot readLatestFrame read was written by the write of its index
    lSame,               \* history: the last readLatestFrame call loaded the writeIndex the call
                         \* before it had loaded, and no write call was running
    ntf,                 \* the frame callback of the attached handle, its notification thread,
                         \* and the threads calling registerFrameCallback/unregisterFrameCallback
    meta,                \* the bytes of the metadata region, a NUL-terminated JSON document
    call,                \* the last call of updateMetadata, initialize (repeated), getStatistics,
                         \* resetStatistics, getFormatCode or getFormatString: arguments and result
    cons                 \* two callers of readNextFrame on one segment, each with its own locals

cbVars == <<writeIndex, readIndex, frameCount, totalFramesWritten, totalFramesRead, droppedFrames>>
cfgVars == <<shmSize, dropFramesWhenFull, seg, hnd, att>>
wVars == <<pcW, wFrame, wTimeout, wIdx, wRd, wStatus, wEntry, wDirty>>
rVars == <<pcR, rWait, rIdx, rWr, rCnt, rHdr, rView, rStatus, rEntry, rClean, seen>>
lLocals == <<pcL, lWr, lHdr, lView, lClean, lSame>>
auxVars == <<meta, call, cons>>
lVars == <<lStatus, lLocals, ntf, auxVars>>
vars == <<cfgVars, cbVars, mem, published, writer, wVars, rVars, lVars>>

\* ------------------------------------------------------------ geometry
\* maxFrames = (size - dataOffset) / frameSlotSize; if (maxFrames < 1) maxFrames = 1
MaxFramesOf(size) ==
    LET n == (size - DataOffsetOf) \div FrameSlotSizeOf
    IN  IF n < 1 THEN 1 ELSE n

maxFrames == MaxFramesOf(shmSize)

calculateFrameOffset(index) == DataOffsetOf + (index % maxFrames) * FrameSlotSizeOf

\* getFrameHeader: the offset of the header, or -1 for nullptr
getFrameHeader(index) ==
    LET offset == calculateFrameOffset(index)
    IN  IF offset + SizeofFrameHeader > shmSize THEN -1 ELSE offset

\* getFrameData: the offset of the pixel bytes, or -1 for nullptr
getFrameData(index) ==
    LET offset == calculateFrameOffset(index) + SizeofFrameHeader
    IN  IF offset >= shmSize THEN -1 ELSE offset

Offsets == DataOffsetOf .. (shmSize - 1)

\* ------------------------------------------------------------ formats
getFormatCode(format) ==
    IF format = "YUV" \/ format = "YUV422" THEN 1
    ELSE IF format = "BGRA" \/ format = "RGB" \/ format = "RGBA" THEN 2
    ELSE IF format = "YUV10" \/ format = "YUV422_10" THEN 3
    ELSE IF format = "RGB10" THEN 4
    ELSE 255

\* Variant of getFormatString: 0x02 is named "RGB".
getFormatStringRgb(formatCode) ==
    CASE formatCode = 1 -> "YUV"
      [] formatCode = 2 -> "RGB"
      [] formatCode = 3 -> "YUV10"
      [] formatCode = 4 -> "RGB10"
      [] OTHER -> "Unknown"

getFormatString(formatCode) ==
    CASE formatCode = 1 -> "YUV"
      [] formatCode = 2 -> "BGRA"
      [] formatCode = 3 -> "YUV10"
      [] formatCode = 4 -> "RGB10"
      [] OTHER -> "Unknown"

\* ------------------------------------------------------------ cells
\* A cell holds either raw bytes, [b |-> value], or a FrameHeader record.
RawCell(b) == [b |-> b]
IsRaw(c) == "b" \in DOMAIN c

\* The FrameHeader a reader finds in cells that hold raw bytes of value b.
RawHeader(b) ==
    [frameId |-> b, timestamp |-> b, width |-> b, height |-> b, bytesPerPixel |-> b,
     dataSize |-> b, formatCode |-> b, flags |-> b, sequenceNumber |-> b,
     metadataOffset |-> b, metadataSize |-> b]

HeaderAt(m, off) == IF IsRaw(m[off]) THEN RawHeader(m[off].b) ELSE m[off]

PixelAt(m, off) ==
    IF off \notin DOMAIN m THEN 0
    ELSE IF IsRaw(m[off]) THEN m[off].b ELSE HeaderAsPixel

\* The dataSize bytes a mapped view starting at offset off shows.
ViewAt(m, off, dataSize) == [i \in 1 .. dataSize |-> PixelAt(m, off + i - 1)]

\* memcpy(dataPtr, data, n) into the segment: the cells it reaches inside the mapping.
Memcpy(m, off, data) ==
    [a \in DOMAIN m |->
        IF a >= off /\ a < off + Len(data) THEN RawCell(data[a - off + 1]) ELSE m[a]]

\* ------------------------------------------------------------ frames
FormatOfSize(n) ==
    CASE n = 1 -> "YUV"
      [] n = 2 -> "RGB"
      [] n = 3 -> "YUV10"
      [] OTHER -> "GRAY"

\* A frame handed to writeFrame: n pixel bytes; mapped: Frame::isMappedToSharedMemory().
MkFrame(n, mapped) ==
    [frameId |-> 40 + n, timestamp |-> 100 + n, width |-> n, height |-> 1,
     bytesPerPixel |-> 1,
     format |-> IF mapped THEN "RGB10" ELSE FormatOfSize(n),
     data |-> [i \in 1 .. n |-> 2 * n + (IF mapped THEN 1 ELSE 0)],
     isMapped |-> mapped]

\* The frames handed to the producer: an empty one, one that fills the pixel
\* room of a slot, one that is longer, and one that is mapped to shared memory.
Frames ==
    {MkFrame(n, FALSE) : n \in {0, EstimatedPixels, OversizePixels}}
        \cup {MkFrame(1, TRUE)}

NoFrame == MkFrame(0, FALSE)

\* uint64_t subtraction
U64Sub(a, b) == IF a >= b THEN a - b ELSE a - b + U64Modulus

\* Variant of BufferFull: the buffer counts as full one frame too late.
BufferFullOffByOne(w, r) == U64Sub(w, r) > maxFrames

\* bool bufferFull = frameCount >= impl_->maxFrames, frameCount = writeIndex - readIndex
BufferFull(w, r) == U64Sub(w, r) >= maxFrames

\* Variant of NoFrameAvailable: a reader that has caught up is let through.
NoFrameAvailableOffByOne(r, w) == r > w

\* readNextFrame: if (readIndex >= writeIndex), no frame is available
NoFrameAvailable(r, w) == r >= w

NoEntry == [writeIndex |-> 0, totalFramesWritten |-> 0, droppedFrames |-> 0]


\* ------------------------------------------------------------ segment and handle
\* No object of the configured name exists.
NoSegment ==
    [exists |-> FALSE, size |-> 0, active |-> FALSE, maxFrames |-> 0,
     metadataSize |-> 0, frameSlotSize |-> 0]

\* The object a finished initialize(create = true) leaves: ftruncate'd to size,
\* controlBlock->active set, max_frames in the metadata area.
CreatedSegment(size) ==
    [exists |-> TRUE, size |-> size, active |-> TRUE, maxFrames |-> MaxFramesOf(size),
     metadataSize |-> MetadataAreaSize, frameSlotSize |-> FrameSlotSizeOf]

\* A handle as constructed from its Config; sysHuge: the system has huge pages.
NewHandle(type, create, size, sysHuge) ==
    [type |-> type, create |-> create, cfgSize |-> size, sysHuge |-> sysHuge,
     isServer |-> FALSE, isInitialized |-> FALSE, mapped |-> FALSE,
     maxFrames |-> 0, pc |-> "new", status |-> "NONE"]

\* The attaching handle as constructed; pc "none": no such process.
NewAttacher(pc) ==
    [pc |-> pc, attempts |-> 0, mapped |-> FALSE, isInitialized |-> FALSE,
     status |-> "NONE", dataOffset |-> 0, maxFrames |-> 0, frameSlotSize |-> 0]

\* The creator's handle after initialize returned OK.
CreatorHandle(size) ==
    [NewHandle("POSIX_SHM", TRUE, size, FALSE) EXCEPT
        !.isServer = TRUE, !.isInitialized = TRUE, !.mapped = TRUE,
        !.maxFrames = MaxFramesOf(size), !.pc = "done", !.status = "OK"]

\* ------------------------------------------------------------ the metadata region
\* controlBlock->metadataSize in bytes: the one cell of the metadata area, seen
\* byte by byte (4096 in the source).
MetadataBytes == 8

\* The keys a metadata document may hold, in the order dump() emits them
\* (nlohmann::json keeps an object's keys sorted).
KeyOrder == <<"a", "b", "last_frame">>
MetaKeys == {KeyOrder[i] : i \in 1 .. Len(KeyOrder)}

\* The lengths of the values, in bytes.
ValueLengths == {1, 2}

\* A JSON object: its keys, and the length of the value of each.
Docs == UNION {[ks -> ValueLengths] : ks \in SUBSET MetaKeys}

\* json{} and the object without keys.
EmptyDoc == CHOOSE d \in Docs : DOMAIN d = {}

\* One member of the serialized object: the key, then the bytes of the value.
DumpEntry(doc, k) ==
    IF k \in DOMAIN doc THEN <<k>> \o [i \in 1 .. doc[k] |-> "v"] ELSE <<>>

\* metadata.dump()
dump(doc) ==
    <<"{">> \o DumpEntry(doc, KeyOrder[1]) \o DumpEntry(doc, KeyOrder[2])
            \o DumpEntry(doc, KeyOrder[3]) \o <<"}">>

\* The C string at the head of an area: the bytes before the first NUL.
CString(area) ==
    LET nuls == {i \in 1 .. Len(area) : area[i] = "NUL"}
    IN  IF nuls = {} THEN area
        ELSE SubSeq(area, 1, (CHOOSE i \in nuls : \A j \in nuls : i <= j) - 1)

\* json::parse(metadataArea); json{} when the text is not a document
readMetadataJson(area) ==
    LET text == CString(area)
    IN  IF \E d \in Docs : dump(d) = text
          THEN CHOOSE d \in Docs : dump(d) = text
          ELSE EmptyDoc

\* std::strncpy(dest, src, n): the bytes of src, then NULs, n bytes in all; no
\* NUL is stored when src has n bytes or more.
Strncpy(dest, src, n) ==
    [i \in 1 .. Len(dest) |->
        IF i > n THEN dest[i]
        ELSE IF i <= Len(src) THEN src[i] ELSE "NUL"]

\* strncpy(metadataArea, str, metadataSize - 1); metadataArea[metadataSize - 1] = '\0'
StoreDocument(area, text) ==
    [Strncpy(area, text, MetadataBytes - 1) EXCEPT ![MetadataBytes] = "NUL"]

\* Variant of updateMetadataJson: a document of exactly metadataSize bytes is
\* taken to fit.
updateMetadataJsonOffByOne(area, doc) ==
    IF Len(dump(doc)) > MetadataBytes
      THEN [ok |-> FALSE, area |-> area]
      ELSE [ok |-> TRUE, area |-> StoreDocument(area, dump(doc))]

\* Impl::updateMetadataJson: what it returns and what the area holds afterwards
updateMetadataJson(area, doc) ==
    IF Len(dump(doc)) >= MetadataBytes
      THEN [ok |-> FALSE, area |-> area]
      ELSE [ok |-> TRUE, area |-> StoreDocument(area, dump(doc))]

\* metadata[key] = value
WithMember(doc, k, n) ==
    [x \in DOMAIN doc \cup {k} |-> IF x = k THEN n ELSE doc[x]]

\* The area as initialize (create) leaves it: zero-filled by the new mapping,
\* then the first document stored.
CreatedMetadata == StoreDocument([i \in 1 .. MetadataBytes |-> "NUL"], dump(EmptyDoc))

\* ------------------------------------------------------------ calls outside the ring
\* No such call has been made.
NoCall == [op |-> "none", arg |-> <<>>, res |-> <<>>, status |-> "NONE"]

\* The two callers of readNextFrame, before their first call.
Consumers == {"first", "second"}
NoConsumers ==
    [rd |-> [c \in Consumers |-> [pc |-> "idle", idx |-> 0, cnt |-> 0,
                                  status |-> "NONE", got |-> <<>>]],
     overlapped |-> FALSE]

AuxIdle == meta = CreatedMetadata /\ call = NoCall /\ cons = NoConsumers

\* ------------------------------------------------------------ initial state
\* no readLatestFrame call has been made
\* No callback is registered, no notification thread was started
\* (callbackThread_ not joinable, stopCallbackThread_ false), callbackMutex_
\* is free and no thread is inside registerFrameCallback or
\* unregisterFrameCallback.
NoWatcher ==
    [frameCallback |-> 0, joinable |-> FALSE, stop |-> FALSE, mutex |-> "free",
     live |-> 0, pc |-> "none", last |-> 0, wr |-> 0, i |-> 0,
     inCallback |-> 0, delivered |-> <<>>, cancelled |-> FALSE,
     api |-> [t \in {"owner", "other"} |-> "idle"]]

LatestIdle ==
    /\ pcL = "idle" /\ lWr = 0 /\ lHdr = RawHeader(0) /\ lView = <<>>
    /\ lClean = TRUE /\ lSame = FALSE

\* The segment right after the creator's initialize (control block zeroed, the
\* new mapping zero-filled) and after the readers attached.  The segment holds
\* one slot and nothing more, or is as large as the bound allows.
CreatedRing ==
    /\ shmSize \in {DataOffsetOf + FrameSlotSizeOf, MaxShmSize}
    /\ dropFramesWhenFull \in BOOLEAN
    /\ seg = CreatedSegment(shmSize)
    /\ hnd = CreatorHandle(shmSize)
    /\ att = NewAttacher("none")
    /\ writeIndex = 0 /\ readIndex = 0 /\ frameCount = 0
    /\ totalFramesWritten = 0 /\ totalFramesRead = 0 /\ droppedFrames = 0
    /\ mem = [a \in Offsets |-> RawCell(0)]
    /\ pcW = "idle" /\ wFrame = NoFrame /\ wTimeout = 0 /\ wIdx = 0 /\ wRd = 0
    /\ wStatus = "NONE"
    /\ pcR = "idle" /\ rWait = 0 /\ rIdx = 0 /\ rWr = 0 /\ rCnt = 0
    /\ rHdr = RawHeader(0) /\ rView = <<>> /\ rStatus = "NONE"
    /\ lStatus = "NONE" /\ LatestIdle
    /\ ntf = NoWatcher
    /\ published = <<>>
    /\ writer = [a \in Offsets |-> -1]
    /\ wEntry = NoEntry /\ rEntry = 0
    /\ wDirty = FALSE /\ rClean = TRUE /\ seen = <<>>

\* The created segment; no call outside the ring has been made.
Init == CreatedRing /\ AuxIdle

\* ------------------------------------------------------------ writeFrameTimeout
\* header->frameId .. header->metadataSize
FillHeader(h, f, index) ==
    [h EXCEPT !.frameId = f.frameId, !.timestamp = f.timestamp, !.width = f.width,
              !.height = f.height, !.bytesPerPixel = f.bytesPerPixel,
              !.dataSize = Len(f.data),
              !.formatCode = getFormatCode(f.format), !.flags = 0,
              !.sequenceNumber = index, !.metadataOffset = 0, !.metadataSize = 0]

\* Variant of NextWriteIndex: the stored index is the slot number.
NextWriteIndexWrapped(w) == (w + 1) % maxFrames

\* impl_->controlBlock->writeIndex.store(writeIndex + 1)
NextWriteIndex(w) == w + 1

\* Variant of NextReadIndex: the index loaded is stored back.
NextReadIndexStays(r) == r

\* Variant of NextReadIndex: the reader skips a frame.
NextReadIndexSkips(r) == r + 2

\* impl_->controlBlock->readIndex.store(readIndex + 1)
NextReadIndex(r) == r + 1

\* The step of the running write call changes an index, a counter of the ring or a cell.
WriteTouches ==
    \/ mem' # mem
    \/ writeIndex' # writeIndex
    \/ readIndex' # readIndex
    \/ frameCount' # frameCount
    \/ totalFramesWritten' # totalFramesWritten

\* The return of the write call.  timeoutMs stays on record with BUFFER_FULL:
\* it tells the immediate drop from the drop after a timed wait.
WReturn(status) ==
    /\ pcW' = "idle"
    /\ wStatus' = status
    /\ wFrame' = NoFrame
    /\ wTimeout' = IF status = "BUFFER_FULL" THEN wTimeout ELSE 0
    /\ wIdx' = 0
    /\ wRd' = 0

\* Where the fullness check sends the call.
AfterFullCheck(full, timeoutMs) ==
    IF full
      THEN IF timeoutMs > 0 THEN "wait"
           ELSE IF dropFramesWhenFull THEN "drop" ELSE "retry"
      ELSE "header"

\* Variant of W_Call: the fullness check does not see the readIndex the reader
\* stored; it takes readIndex to be 0.
W_CallBlindToReader(f, t) ==
    /\ pcW = "idle"
    /\ writeIndex < MaxWrites
    /\ droppedFrames < MaxDrops
    /\ wEntry' = [writeIndex |-> writeIndex, totalFramesWritten |-> totalFramesWritten,
                  droppedFrames |-> droppedFrames]
    /\ wDirty' = FALSE
    /\ IF Len(f.data) = 0
         THEN WReturn("INVALID_SIZE")
         ELSE /\ pcW' = AfterFullCheck(BufferFull(writeIndex, 0), t)
              /\ wStatus' = "RUNNING"
              /\ wFrame' = f
              /\ wTimeout' = IF BufferFull(writeIndex, 0) THEN t ELSE 0
              /\ wIdx' = writeIndex
              /\ wRd' = 0
    /\ UNCHANGED <<cfgVars, cbVars, mem, published, writer, rVars, lVars>>

\* writeFrame(frame) is writeFrameTimeout(frame, 0).  Entry: the argument
\* check, writeIndex.load, readIndex.load and the branch on bufferFull.
\* Locals that are not read again (timeoutMs once the buffer is not full, the
\* reader's writeIndex and waitMilliseconds once a frame is available) are
\* cleared as soon as they are dead.
W_Call(f, t) ==
    /\ pcW = "idle"
    /\ writeIndex < MaxWrites
    /\ droppedFrames < MaxDrops
    /\ wEntry' = [writeIndex |-> writeIndex, totalFramesWritten |-> totalFramesWritten,
                  droppedFrames |-> droppedFrames]
    /\ wDirty' = FALSE
    /\ IF Len(f.data) = 0
         THEN WReturn("INVALID_SIZE")
         ELSE /\ pcW' = AfterFullCheck(BufferFull(writeIndex, readIndex), t)
              /\ wStatus' = "RUNNING"
              /\ wFrame' = f
              /\ wTimeout' = IF BufferFull(writeIndex, readIndex) THEN t ELSE 0
              /\ wIdx' = writeIndex
              /\ wRd' = readIndex
    /\ UNCHANGED <<cfgVars, cbVars, mem, published, writer, rVars, lVars>>

\* timeoutMs > 0: the deadline has expired after a sleep
W_WaitExpire ==
    /\ pcW = "wait"
    /\ pcW' = "drop"
    /\ UNCHANGED <<wFrame, wTimeout, wIdx, wRd, wStatus, wEntry, wDirty>>
    /\ UNCHANGED <<cfgVars, cbVars, mem, published, writer, rVars, lVars>>

\* timeoutMs > 0: re-check of the buffer status after a sleep
W_WaitRecheck ==
    /\ pcW = "wait"
    /\ wRd' = readIndex
    /\ pcW' = IF BufferFull(wIdx, readIndex) THEN "wait" ELSE "header"
    /\ wTimeout' = IF BufferFull(wIdx, readIndex) THEN wTimeout ELSE 0
    /\ UNCHANGED <<wFrame, wIdx, wStatus, wEntry, wDirty>>
    /\ UNCHANGED <<cfgVars, cbVars, mem, published, writer, rVars, lVars>>

\* timeoutMs = 0 and not dropFramesWhenFull: wait briefly and try once more
W_Retry ==
    /\ pcW = "retry"
    /\ wRd' = readIndex
    /\ pcW' = IF BufferFull(wIdx, readIndex) THEN "drop" ELSE "header"
    /\ UNCHANGED <<wFrame, wTimeout, wIdx, wStatus, wEntry, wDirty>>
    /\ UNCHANGED <<cfgVars, cbVars, mem, published, writer, rVars, lVars>>

\* Variant of W_Drop: only the handle's stats_ are counted, the control
\* block's droppedFrames is left alone.
W_DropUncounted ==
    /\ pcW = "drop"
    /\ UNCHANGED cbVars
    /\ UNCHANGED <<cfgVars, mem, published, writer, rVars, lVars>>
    /\ WReturn("BUFFER_FULL")
    /\ UNCHANGED <<wEntry, wDirty>>

\* droppedFrames.fetch_add(1); return BUFFER_FULL
W_Drop ==
    /\ pcW = "drop"
    /\ droppedFrames' = droppedFrames + 1
    /\ UNCHANGED <<writeIndex, readIndex, frameCount, totalFramesWritten, totalFramesRead>>
    /\ UNCHANGED <<cfgVars, mem, published, writer, rVars, lVars>>
    /\ WReturn("BUFFER_FULL")
    /\ wDirty' = (wDirty \/ WriteTouches)
    /\ UNCHANGED wEntry

\* getFrameHeader, getFrameData, and the header fields
W_Header ==
    /\ pcW = "header"
    /\ UNCHANGED <<cfgVars, cbVars, published, rVars, lVars>>
    /\ IF getFrameHeader(wIdx) = -1 \/ getFrameData(wIdx) = -1
         THEN /\ WReturn("INTERNAL_ERROR")
              /\ UNCHANGED <<mem, writer>>
         ELSE /\ mem' = [mem EXCEPT ![getFrameHeader(wIdx)] =
                            FillHeader(HeaderAt(mem, getFrameHeader(wIdx)), wFrame, wIdx)]
              /\ writer' = [writer EXCEPT ![getFrameHeader(wIdx)] = wIdx]
              /\ pcW' = "copy"
              /\ UNCHANGED <<wFrame, wTimeout, wIdx, wRd, wStatus>>
    /\ wDirty' = (wDirty \/ WriteTouches)
    /\ UNCHANGED wEntry

\* isMappedToSharedMemory: set flag bit 0; otherwise memcpy the pixel bytes.
\* The memcpy has no bound: the bytes that would fall behind the mapping
\* either fault (the process dies) or land in the slack of the last page.
W_Copy ==
    /\ pcW = "copy"
    /\ UNCHANGED <<cfgVars, cbVars, published, rVars, lVars>>
    /\ IF wFrame.isMapped
         THEN /\ mem' = [mem EXCEPT ![getFrameHeader(wIdx)] =
                            [HeaderAt(mem, getFrameHeader(wIdx)) EXCEPT !.flags = 1]]
              /\ UNCHANGED writer
              /\ pcW' = "publish"
         ELSE /\ mem' = Memcpy(mem, getFrameData(wIdx), wFrame.data)
              /\ writer' = [a \in DOMAIN writer |->
                               IF a >= getFrameData(wIdx)
                                  /\ a < getFrameData(wIdx) + Len(wFrame.data)
                                 THEN wIdx ELSE writer[a]]
              /\ \/ pcW' = "publish"
                 \/ /\ getFrameData(wIdx) + Len(wFrame.data) > shmSize
                    /\ pcW' = "crashed"
    /\ wDirty' = (wDirty \/ WriteTouches)
    /\ UNCHANGED <<wFrame, wTimeout, wIdx, wRd, wStatus, wEntry>>

\* lastWriteTime.store; writeIndex.store(writeIndex + 1, release)
W_Publish ==
    /\ pcW = "publish"
    /\ writeIndex' = NextWriteIndex(wIdx)
    /\ published' = Append(published, wFrame)
    /\ pcW' = "count"
    /\ UNCHANGED <<readIndex, frameCount, totalFramesWritten, totalFramesRead, droppedFrames>>
    /\ UNCHANGED <<cfgVars, mem, writer, rVars, lVars>>
    /\ wDirty' = (wDirty \/ WriteTouches)
    /\ UNCHANGED <<wFrame, wTimeout, wIdx, wRd, wStatus, wEntry>>

\* Variant of W_Finish: totalFramesWritten is not counted.
W_FinishUncounted ==
    /\ pcW = "count"
    /\ frameCount' = U64Sub(wIdx, wRd) + 1
    /\ UNCHANGED <<writeIndex, readIndex, totalFramesWritten, totalFramesRead, droppedFrames>>
    /\ UNCHANGED <<cfgVars, mem, published, writer, rVars, lVars>>
    /\ WReturn("OK")
    /\ wDirty' = (wDirty \/ WriteTouches)
    /\ UNCHANGED wEntry

\* frameCount.store(frameCount + 1), frameCount being the local writeIndex - readIndex;
\* totalFramesWritten.fetch_add(1); return OK
W_Finish ==
    /\ pcW = "count"
    /\ frameCount' = U64Sub(wIdx, wRd) + 1
    /\ totalFramesWritten' = totalFramesWritten + 1
    /\ UNCHANGED <<writeIndex, readIndex, totalFramesRead, droppedFrames>>
    /\ UNCHANGED <<cfgVars, mem, published, writer, rVars, lVars>>
    /\ WReturn("OK")
    /\ wDirty' = (wDirty \/ WriteTouches)
    /\ UNCHANGED wEntry

ProducerNext ==
    \/ \E f \in Frames, t \in {0, 1} : W_Call(f, t)
    \/ W_WaitExpire
    \/ W_WaitRecheck
    \/ W_Retry
    \/ W_Drop
    \/ W_Header
    \/ W_Copy
    \/ W_Publish
    \/ W_Finish

\* ------------------------------------------------------------ readNextFrame
RReturn(status) ==
    /\ pcR' = "idle"
    /\ rStatus' = status
    /\ rWait' = 0
    /\ rWr' = 0
    /\ rCnt' = 0

\* Entry: readIndex.load, writeIndex.load and the check whether a frame is available
R_Call(wait) ==
    /\ pcR = "idle"
    /\ rIdx' = readIndex
    /\ rEntry' = totalFramesRead
    /\ IF NoFrameAvailable(readIndex, writeIndex) /\ wait = 0
         THEN RReturn("BUFFER_EMPTY")
         ELSE /\ pcR' = IF NoFrameAvailable(readIndex, writeIndex) THEN "wait" ELSE "header"
              /\ rWait' = IF NoFrameAvailable(readIndex, writeIndex) THEN wait ELSE 0
              /\ rWr' = IF NoFrameAvailable(readIndex, writeIndex) THEN writeIndex ELSE 0
              /\ rStatus' = "RUNNING"
              /\ UNCHANGED rCnt
    /\ UNCHANGED <<rHdr, rView, rClean, seen>>
    /\ UNCHANGED <<cfgVars, cbVars, mem, published, writer, wVars, lVars>>

\* waitMilliseconds > 0: sleep 1 ms, load writeIndex again
R_Poll ==
    /\ pcR = "wait"
    /\ NoFrameAvailable(rIdx, rWr)
    /\ rWr' = writeIndex
    /\ UNCHANGED <<pcR, rWait, rIdx, rCnt, rHdr, rView, rStatus, rEntry, rClean, seen>>
    /\ UNCHANGED <<cfgVars, cbVars, mem, published, writer, wVars, lVars>>

\* the wait loop ends because a frame is available
R_Wake ==
    /\ pcR = "wait"
    /\ ~NoFrameAvailable(rIdx, rWr)
    /\ pcR' = "header"
    /\ rWait' = 0
    /\ rWr' = 0
    /\ UNCHANGED <<rIdx, rCnt, rHdr, rView, rStatus, rEntry, rClean, seen>>
    /\ UNCHANGED <<cfgVars, cbVars, mem, published, writer, wVars, lVars>>

\* Variant of R_Timeout: the deadline ends the call without the last look at
\* the writeIndex that was loaded.
R_TimeoutUnchecked ==
    /\ pcR = "wait"
    /\ RReturn("TIMEOUT")
    /\ UNCHANGED <<rIdx, rHdr, rView, rEntry, rClean, seen>>
    /\ UNCHANGED <<cfgVars, cbVars, mem, published, writer, wVars, lVars>>

\* Variant of R_Timeout: the expired wait is reported as BUFFER_EMPTY.
R_TimeoutAsEmpty ==
    /\ pcR = "wait"
    /\ NoFrameAvailable(rIdx, rWr)
    /\ RReturn("BUFFER_EMPTY")
    /\ UNCHANGED <<rIdx, rHdr, rView, rEntry, rClean, seen>>
    /\ UNCHANGED <<cfgVars, cbVars, mem, published, writer, wVars, lVars>>

\* the wait loop ends because the deadline has passed; return TIMEOUT
R_Timeout ==
    /\ pcR = "wait"
    /\ NoFrameAvailable(rIdx, rWr)
    /\ RReturn("TIMEOUT")
    /\ UNCHANGED <<rIdx, rHdr, rView, rEntry, rClean, seen>>
    /\ UNCHANGED <<cfgVars, cbVars, mem, published, writer, wVars, lVars>>

\* The header cell of the slot of index k was stored by write number k.
HeaderWrittenBy(k) == writer[getFrameHeader(k)] = k

\* The cells of the dataSize pixel bytes of the slot of index k were stored by
\* write number k.
PixelsWrittenBy(k, dataSize) ==
    \A a \in getFrameData(k) .. (getFrameData(k) + dataSize - 1) :
       a \in DOMAIN writer /\ writer[a] = k

\* getFrameHeader, getFrameData, Frame::createMapped over the slot's pixel bytes,
\* setFrameId, setTimestamp.  createMapped opens and maps the segment again and
\* returns nullptr when that fails.  The header fields are copied here; the
\* pixel bytes are not: the frame is a view of the slot.
R_Header ==
    /\ pcR = "header"
    /\ UNCHANGED <<cfgVars, cbVars, mem, published, writer, wVars, lVars>>
    /\ UNCHANGED <<rIdx, rEntry, seen>>
    /\ IF getFrameHeader(rIdx) = -1 \/ getFrameData(rIdx) = -1
         THEN /\ RReturn("INTERNAL_ERROR")
              /\ UNCHANGED <<rHdr, rView, rClean>>
         ELSE \/ /\ RReturn("INTERNAL_ERROR")
                 /\ UNCHANGED <<rHdr, rView, rClean>>
              \/ /\ rHdr' = HeaderAt(mem, getFrameHeader(rIdx))
                 /\ rClean' = HeaderWrittenBy(rIdx)
                 /\ pcR' = "commit"
                 /\ UNCHANGED <<rWait, rWr, rCnt, rView, rStatus>>

\* readIndex.store(readIndex + 1, release)
R_Commit ==
    /\ pcR = "commit"
    /\ readIndex' = NextReadIndex(rIdx)
    /\ pcR' = "loadCount"
    /\ UNCHANGED <<writeIndex, frameCount, totalFramesWritten, totalFramesRead, droppedFrames>>
    /\ UNCHANGED <<rWait, rIdx, rWr, rCnt, rHdr, rView, rStatus, rEntry, rClean, seen>>
    /\ UNCHANGED <<cfgVars, mem, published, writer, wVars, lVars>>

\* frameCount.load
R_LoadCount ==
    /\ pcR = "loadCount"
    /\ rCnt' = frameCount
    /\ pcR' = "storeCount"
    /\ UNCHANGED <<rWait, rIdx, rWr, rHdr, rView, rStatus, rEntry, rClean, seen>>
    /\ UNCHANGED <<cfgVars, cbVars, mem, published, writer, wVars, lVars>>

\* if (frameCount > 0) frameCount.store(frameCount - 1);
\* totalFramesRead.fetch_add(1); return OK.  The caller now holds the frame:
\* rView is what its mapped pixel bytes show at the return.
R_Finish ==
    /\ pcR = "storeCount"
    /\ frameCount' = IF rCnt > 0 THEN rCnt - 1 ELSE frameCount
    /\ totalFramesRead' = totalFramesRead + 1
    /\ seen' = Append(seen, rHdr.sequenceNumber)
    /\ rView' = ViewAt(mem, getFrameData(rIdx), rHdr.dataSize)
    /\ rClean' = (rClean /\ PixelsWrittenBy(rIdx, rHdr.dataSize))
    /\ RReturn("OK")
    /\ UNCHANGED <<writeIndex, readIndex, totalFramesWritten, droppedFrames>>
    /\ UNCHANGED <<rIdx, rHdr, rEntry>>
    /\ UNCHANGED <<cfgVars, mem, published, writer, wVars, lVars>>

ReaderNext ==
    \/ \E wait \in {0, 1} : R_Call(wait)
    \/ R_Poll
    \/ R_Wake
    \/ R_Timeout
    \/ R_Header
    \/ R_Commit
    \/ R_LoadCount
    \/ R_Finish

\* Variant of readLatestFrame: a call that returns OK consumes the frame, as
\* readNextFrame does.
readLatestFrameConsuming ==
    /\ IF writeIndex = 0 \/ writeIndex <= readIndex
         THEN /\ lStatus' = "BUFFER_EMPTY"
              /\ UNCHANGED cbVars
         ELSE \/ /\ lStatus' = "INTERNAL_ERROR"
                 /\ UNCHANGED cbVars
              \/ /\ getFrameHeader(writeIndex - 1) # -1
                 /\ getFrameData(writeIndex - 1) # -1
                 /\ lStatus' = "OK"
                 /\ readIndex' = writeIndex
                 /\ totalFramesRead' = totalFramesRead + 1
                 /\ UNCHANGED <<writeIndex, frameCount, totalFramesWritten, droppedFrames>>
    /\ UNCHANGED <<cfgVars, mem, published, writer, wVars, rVars, lLocals, ntf, auxVars>>

\* ------------------------------------------------------------ readLatestFrame
\* readLatestFrame stores nothing in the control block except lastReadTime, so
\* the whole call is one step: writeIndex.load, readIndex.load,
\* if (writeIndex == 0 || writeIndex <= readIndex) return BUFFER_EMPTY;
\* the header and data of latestIndex = writeIndex - 1 (nullptr gives
\* INTERNAL_ERROR), Frame::createMapped (nullptr when the mapping fails).
readLatestFrame ==
    /\ IF writeIndex = 0 \/ writeIndex <= readIndex
         THEN lStatus' = "BUFFER_EMPTY"
         ELSE \/ lStatus' = "INTERNAL_ERROR"
              \/ /\ getFrameHeader(writeIndex - 1) # -1
                 /\ getFrameData(writeIndex - 1) # -1
                 /\ lStatus' = "OK"
    /\ UNCHANGED <<cfgVars, cbVars, mem, published, writer, wVars, rVars, lLocals, ntf, auxVars>>

LatestNext == readLatestFrame

Next == ProducerNext \/ ReaderNext

\* One producer and one sequential reader.
Spec == Init /\ [][Next]_vars

NextWithLatest == Next \/ LatestNext

\* One producer, one sequential reader and one latest-frame reader.
SpecLatest == Init /\ [][NextWithLatest]_vars

\* ------------------------------------------------------------ readLatestFrame, step by step
\* The same call with the producer and the sequential reader running between
\* its loads of the indices, its read of the header and its return.
LReturn(status) ==
    /\ pcL' = "idle"
    /\ lStatus' = status

\* writeIndex.load, readIndex.load,
\* if (writeIndex == 0 || writeIndex <= readIndex) return BUFFER_EMPTY
L_Call ==
    /\ pcL = "idle"
    /\ lSame' = (lStatus # "NONE" /\ lWr = writeIndex /\ pcW = "idle")
    /\ lWr' = writeIndex
    /\ lClean' = TRUE
    /\ UNCHANGED <<lHdr, lView>>
    /\ UNCHANGED <<cfgVars, cbVars, mem, published, writer, wVars, rVars, ntf, auxVars>>
    /\ IF writeIndex = 0 \/ writeIndex <= readIndex
         THEN LReturn("BUFFER_EMPTY")
         ELSE /\ pcL' = "header"
              /\ UNCHANGED lStatus

\* getFrameHeader(latestIndex), getFrameData(latestIndex), the header fields
\* handed to Frame::createMapped (nullptr when the mapping fails), setFrameId,
\* setTimestamp.  No field of the header is compared with latestIndex.
L_Header ==
    /\ pcL = "header"
    /\ UNCHANGED <<lWr, lView, lSame>>
    /\ UNCHANGED <<cfgVars, cbVars, mem, published, writer, wVars, rVars, ntf, auxVars>>
    /\ IF getFrameHeader(lWr - 1) = -1 \/ getFrameData(lWr - 1) = -1
         THEN /\ LReturn("INTERNAL_ERROR")
              /\ UNCHANGED <<lHdr, lClean>>
         ELSE \/ /\ LReturn("INTERNAL_ERROR")
                 /\ UNCHANGED <<lHdr, lClean>>
              \/ /\ lHdr' = HeaderAt(mem, getFrameHeader(lWr - 1))
                 /\ lClean' = HeaderWrittenBy(lWr - 1)
                 /\ pcL' = "finish"
                 /\ UNCHANGED lStatus

\* lastReadTime.store, the handle's own statistics, return OK: the frame is a
\* view of the slot's pixel bytes as they are now.
L_Finish ==
    /\ pcL = "finish"
    /\ lView' = ViewAt(mem, getFrameData(lWr - 1), lHdr.dataSize)
    /\ lClean' = (lClean /\ PixelsWrittenBy(lWr - 1, lHdr.dataSize))
    /\ LReturn("OK")
    /\ UNCHANGED <<lWr, lHdr, lSame>>
    /\ UNCHANGED <<cfgVars, cbVars, mem, published, writer, wVars, rVars, ntf, auxVars>>

LatestStepsNext ==
    \/ L_Call
    \/ L_Header
    \/ L_Finish

NextLatestRace == Next \/ LatestStepsNext

\* A segment of one slot whose producer, finding it full, looks once more
\* before giving up (dropFramesWhenFull false).
InitOneSlot ==
    /\ Init
    /\ shmSize = DataOffsetOf + FrameSlotSizeOf
    /\ ~dropFramesWhenFull

\* One producer, one sequential reader and one latest-frame reader whose call
\* interleaves with theirs, on a segment of one slot.
SpecLatestRace == InitOneSlot /\ [][NextLatestRace]_vars

\* ------------------------------------------------------------ the first variant
\* src/cpp/src/communication/shared_memory.cpp: no metadata area, no timed
\* write, and the ring helpers below.

\* dataOffset = controlBlockSize
LegacyDataOffset == ControlBlockSize

\* maxFrames = (size - dataOffset) / avgFrameSize; if (maxFrames < 1) maxFrames = 1
LegacyMaxFrames ==
    LET n == (shmSize - LegacyDataOffset) \div FrameSlotSizeOf
    IN  IF n < 1 THEN 1 ELSE n

\* return dataOffset + (index % maxFrames) * sizeof(FrameHeader)
getFrameOffset(index) == LegacyDataOffset + (index % LegacyMaxFrames) * SizeofFrameHeader

\* getFrameHeader of the first variant, -1 for nullptr
LegacyFrameHeader(index) ==
    IF getFrameOffset(index) + SizeofFrameHeader > shmSize THEN -1
    ELSE getFrameOffset(index)

\* getFrameData(index, sizeof(FrameHeader)) of the first variant, -1 for nullptr
LegacyFrameData(index) ==
    IF getFrameOffset(index) + SizeofFrameHeader >= shmSize THEN -1
    ELSE getFrameOffset(index) + SizeofFrameHeader

LegacyOffsets == LegacyDataOffset .. (shmSize - 1)

\* The format code set inline by writeFrame of the first variant.
LegacyFormatCode(format) ==
    CASE format \in {"YUV", "YUV422"} -> 1
      [] format \in {"RGB", "BGRA"} -> 2
      [] format \in {"YUV10", "YUV422_10"} -> 3
      [] format = "RGB10" -> 4
      [] OTHER -> 255

\* The segment right after the creator's initialize of the first variant.
InitLegacy ==
    /\ shmSize \in {LegacyDataOffset + FrameSlotSizeOf, MaxShmSize}
    /\ dropFramesWhenFull = TRUE
    /\ seg = [CreatedSegment(shmSize) EXCEPT !.maxFrames = LegacyMaxFrames]
    /\ hnd = [CreatorHandle(shmSize) EXCEPT !.maxFrames = LegacyMaxFrames]
    /\ att = NewAttacher("none")
    /\ writeIndex = 0 /\ readIndex = 0 /\ frameCount = 0
    /\ totalFramesWritten = 0 /\ totalFramesRead = 0 /\ droppedFrames = 0
    /\ mem = [a \in LegacyOffsets |-> RawCell(0)]
    /\ pcW = "idle" /\ wFrame = NoFrame /\ wTimeout = 0 /\ wIdx = 0 /\ wRd = 0
    /\ wStatus = "NONE"
    /\ pcR = "idle" /\ rWait = 0 /\ rIdx = 0 /\ rWr = 0 /\ rCnt = 0
    /\ rHdr = RawHeader(0) /\ rView = <<>> /\ rStatus = "NONE"
    /\ lStatus = "NONE" /\ LatestIdle
    /\ ntf = NoWatcher
    /\ AuxIdle
    /\ published = <<>>
    /\ writer = [a \in LegacyOffsets |-> -1]
    /\ wEntry = NoEntry /\ rEntry = 0
    /\ wDirty = FALSE /\ rClean = TRUE /\ seen = <<>>

\* What writeFrame of the first variant returns once the argument is not empty.
LegacyWriteStatus(f) ==
    IF LegacyFrameHeader(writeIndex) = -1 THEN "INTERNAL_ERROR"
    ELSE IF getFrameOffset(writeIndex) + SizeofFrameHeader + Len(f.data) > shmSize
           THEN "BUFFER_FULL"
    ELSE IF LegacyFrameData(writeIndex) = -1 THEN "INTERNAL_ERROR"
    ELSE "OK"

\* writeFrame of the first variant, the whole call.  totalFrames is
\* totalFramesWritten.  The header is filled before the data pointer is tested.
LegacyWriteFrame(f) ==
    /\ pcW = "idle"
    /\ writeIndex < MaxWrites
    /\ droppedFrames < MaxDrops
    /\ wEntry' = [writeIndex |-> writeIndex, totalFramesWritten |-> totalFramesWritten,
                  droppedFrames |-> droppedFrames]
    /\ wIdx' = writeIndex
    /\ UNCHANGED <<cfgVars, readIndex, totalFramesRead, rVars, lVars>>
    /\ UNCHANGED <<pcW, wFrame, wTimeout, wRd, wDirty>>
    /\ IF Len(f.data) = 0
         THEN /\ wStatus' = "INVALID_SIZE"
              /\ UNCHANGED <<writeIndex, frameCount, totalFramesWritten, droppedFrames>>
              /\ UNCHANGED <<mem, published, writer>>
         ELSE /\ droppedFrames' =
                    IF frameCount >= LegacyMaxFrames THEN droppedFrames + 1 ELSE droppedFrames
              /\ wStatus' = LegacyWriteStatus(f)
              /\ IF LegacyWriteStatus(f) = "OK"
                   THEN /\ mem' = Memcpy(
                               [mem EXCEPT ![LegacyFrameHeader(writeIndex)] =
                                   [FillHeader(HeaderAt(mem, LegacyFrameHeader(writeIndex)),
                                               f, writeIndex)
                                       EXCEPT !.formatCode = LegacyFormatCode(f.format)]],
                               LegacyFrameData(writeIndex), f.data)
                        /\ writer' = [a \in DOMAIN writer |->
                                         IF a >= LegacyFrameHeader(writeIndex)
                                            /\ a < LegacyFrameData(writeIndex) + Len(f.data)
                                           THEN writeIndex ELSE writer[a]]
                        /\ writeIndex' = writeIndex + 1
                        /\ totalFramesWritten' = totalFramesWritten + 1
                        /\ frameCount' = IF writeIndex + 1 > readIndex
                                           THEN writeIndex + 1 - readIndex
                                           ELSE LegacyMaxFrames
                        /\ published' = Append(published, f)
                   ELSE /\ UNCHANGED <<writeIndex, frameCount, totalFramesWritten>>
                        /\ UNCHANGED <<mem, published, writer>>

\* readNextFrame(frame, 0) of the first variant, the whole call, on the handle
\* that created the segment (the only one whose maxFrames is computed).
LegacyReadNextFrame ==
    /\ pcR = "idle"
    /\ rIdx' = readIndex
    /\ rEntry' = totalFramesRead
    /\ UNCHANGED <<cfgVars, writeIndex, totalFramesWritten, totalFramesRead, droppedFrames>>
    /\ UNCHANGED <<mem, published, writer, wVars, lVars>>
    /\ UNCHANGED <<pcR, rWait, rWr, rCnt, rClean>>
    /\ IF readIndex >= writeIndex
         THEN /\ rStatus' = "BUFFER_EMPTY"
              /\ UNCHANGED <<readIndex, frameCount, rHdr, rView, seen>>
         ELSE IF LegacyFrameHeader(readIndex) = -1 \/ LegacyFrameData(readIndex) = -1
         THEN /\ rStatus' = "INTERNAL_ERROR"
              /\ UNCHANGED <<readIndex, frameCount, rHdr, rView, seen>>
         ELSE /\ rStatus' = "OK"
              /\ rHdr' = HeaderAt(mem, LegacyFrameHeader(readIndex))
              /\ rView' = ViewAt(mem, LegacyFrameData(readIndex), rHdr'.dataSize)
              /\ seen' = Append(seen, rHdr'.sequenceNumber)
              /\ readIndex' = readIndex + 1
              /\ frameCount' = IF frameCount > 0 THEN frameCount - 1 ELSE frameCount

NextLegacy ==
    \/ \E f \in Frames : LegacyWriteFrame(f)
    \/ LegacyReadNextFrame

\* The first variant: one handle that writes and reads.
SpecLegacy == InitLegacy /\ [][NextLegacy]_vars

\* ------------------------------------------------------------ initialize
BackendTypes == {"POSIX_SHM", "SYSV_SHM", "MEMORY_MAPPED_FILE", "HUGE_PAGES"}

\* Hugepagesize of /proc/meminfo (scaled): larger than the smallest accepted size.
HugePageSize == 4

\* roundedSize = ((shmSize + hugePageSize - 1) / hugePageSize) * hugePageSize
RoundedSize(size) == ((size + HugePageSize - 1) \div HugePageSize) * HugePageSize

\* if (size <= dataOffset + sizeof(FrameHeader)) return INVALID_SIZE
SizeTooSmall(size) == size <= DataOffsetOf + SizeofFrameHeader

\* A handle just constructed, over a system where the name is free or names
\* a segment another process created; the ring variables are not in use yet.
InitHandle ==
    /\ shmSize = 0
    /\ dropFramesWhenFull = TRUE
    /\ seg \in {NoSegment, CreatedSegment(MaxShmSize)}
    /\ hnd \in {NewHandle(t, c, size, h) :
                   t \in BackendTypes, c \in BOOLEAN, size \in 0 .. MaxShmSize, h \in BOOLEAN}
    /\ att = NewAttacher("none")
    /\ writeIndex = 0 /\ readIndex = 0 /\ frameCount = 0
    /\ totalFramesWritten = 0 /\ totalFramesRead = 0 /\ droppedFrames = 0
    /\ mem = [a \in Offsets |-> RawCell(0)]
    /\ pcW = "idle" /\ wFrame = NoFrame /\ wTimeout = 0 /\ wIdx = 0 /\ wRd = 0
    /\ wStatus = "NONE"
    /\ pcR = "idle" /\ rWait = 0 /\ rIdx = 0 /\ rWr = 0 /\ rCnt = 0
    /\ rHdr = RawHeader(0) /\ rView = <<>> /\ rStatus = "NONE"
    /\ lStatus = "NONE" /\ LatestIdle
    /\ ntf = NoWatcher
    /\ AuxIdle
    /\ published = <<>>
    /\ writer = [a \in Offsets |-> -1]
    /\ wEntry = NoEntry /\ rEntry = 0
    /\ wDirty = FALSE /\ rClean = TRUE /\ seen = <<>>

ringVars == <<cbVars, mem, published, writer, wVars, rVars, lVars>>

\* The return of Impl::initialize* and of SharedMemory::initialize.
IReturn(h, status) ==
    [h EXCEPT !.pc = "done", !.status = status, !.isInitialized = (status = "OK")]

\* SharedMemory::initialize, the switch on config_.type and the head of
\* Impl::initialize*: huge pages looked up and the size rounded (HUGE_PAGES
\* only), size, isServer and type stored, the size test.
I_Call ==
    /\ hnd.pc = "new"
    /\ UNCHANGED <<dropFramesWhenFull, seg, att, ringVars>>
    /\ IF hnd.type = "HUGE_PAGES" /\ ~hnd.sysHuge
         THEN /\ hnd' = IReturn(hnd, "NOT_SUPPORTED")
              /\ UNCHANGED shmSize
         ELSE /\ shmSize' = IF hnd.type = "HUGE_PAGES" THEN RoundedSize(hnd.cfgSize)
                            ELSE hnd.cfgSize
              /\ hnd' = IF SizeTooSmall(shmSize')
                          THEN IReturn([hnd EXCEPT !.isServer = hnd.create], "INVALID_SIZE")
                          ELSE [hnd EXCEPT !.isServer = hnd.create, !.pc = "open"]

\* create: shm_open(O_CREAT) and ftruncate (shmget, open); either may fail,
\* and a failed ftruncate unlinks the name.  attach: shm_open and fstat.
I_Open ==
    /\ hnd.pc = "open"
    /\ UNCHANGED <<dropFramesWhenFull, att, ringVars>>
    /\ IF hnd.create
         THEN /\ UNCHANGED shmSize
              /\ \/ /\ hnd' = IReturn(hnd, "CREATION_FAILED")
                    /\ seg' \in {seg, NoSegment}
                 \/ /\ hnd' = [hnd EXCEPT !.pc = "map"]
                    /\ seg' = [seg EXCEPT !.exists = TRUE, !.size = shmSize]
         ELSE /\ UNCHANGED seg
              /\ IF seg.exists
                   THEN \/ /\ hnd' = IReturn(hnd, "CREATION_FAILED")
                           /\ UNCHANGED shmSize
                        \/ /\ hnd' = [hnd EXCEPT !.pc = "map"]
                           /\ shmSize' = seg.size
                   ELSE /\ hnd' = IReturn(hnd, "CREATION_FAILED")
                        /\ UNCHANGED shmSize

\* mmap (shmat); on failure the creator unlinks the name
I_Map ==
    /\ hnd.pc = "map"
    /\ UNCHANGED <<shmSize, dropFramesWhenFull, att, ringVars>>
    /\ \/ /\ hnd' = IReturn(hnd, "NOT_INITIALIZED")
          /\ seg' = IF hnd.create THEN NoSegment ELSE seg
       \/ /\ hnd' = [hnd EXCEPT !.mapped = TRUE, !.pc = "setup"]
          /\ UNCHANGED seg

\* create: the control block is zeroed, active set, frameSlotSize and maxFrames
\* computed, the metadata written.  attach: active is awaited (INTERNAL_ERROR
\* when it stays unset), max_frames read from the metadata, with the fallback.
I_Setup ==
    /\ hnd.pc = "setup"
    /\ UNCHANGED <<shmSize, dropFramesWhenFull, att, cbVars, published, wVars, rVars, lVars>>
    /\ IF hnd.create
         THEN /\ seg' = CreatedSegment(shmSize)
              /\ hnd' = IReturn([hnd EXCEPT !.maxFrames = MaxFramesOf(shmSize)], "OK")
              /\ mem' = [a \in Offsets |-> RawCell(0)]
              /\ writer' = [a \in Offsets |-> -1]
         ELSE /\ UNCHANGED <<seg, mem, writer>>
              /\ IF seg.active
                   THEN hnd' = IReturn(
                            [hnd EXCEPT !.maxFrames =
                                IF seg.maxFrames < 1
                                  THEN (shmSize - DataOffsetOf) \div FrameSlotSizeOf
                                  ELSE seg.maxFrames], "OK")
                   ELSE hnd' = IReturn([hnd EXCEPT !.mapped = FALSE], "INTERNAL_ERROR")

NextInit ==
    \/ I_Call
    \/ I_Open
    \/ I_Map
    \/ I_Setup

\* One handle being initialized, over each backend, as creator or as client.
SpecInit == InitHandle /\ [][NextInit]_vars

\* ~SharedMemory and Impl::cleanup of a handle whose initialize has returned:
\* munmap, close, shmdt; then, if isServer, shm_unlink (POSIX_SHM, HUGE_PAGES).
\* For SYSV_SHM shmid has just been set to -1, so IPC_RMID is not reached; a
\* memory-mapped file stays on disk.
cleanup ==
    /\ hnd.pc = "done"
    /\ hnd' = [hnd EXCEPT !.pc = "destroyed", !.mapped = FALSE, !.isInitialized = FALSE]
    /\ seg' = IF hnd.isServer /\ hnd.type \in {"POSIX_SHM", "HUGE_PAGES"}
                THEN NoSegment ELSE seg
    /\ UNCHANGED <<shmSize, dropFramesWhenFull, att, ringVars>>

NextInitCleanup == NextInit \/ cleanup

\* One handle initialized and then destroyed.
SpecInitCleanup == InitHandle /\ [][NextInitCleanup]_vars

\* ------------------------------------------------------------ create and attach, side by side
\* while (!controlBlock->active.load() && attempts < 100)
AttachAttempts == 100

\* The creator has opened, sized and mapped the segment (zero-filled) and is
\* at "Set up the control block"; another process is about to attach.
InitAttach ==
    /\ shmSize \in {DataOffsetOf + SizeofFrameHeader + 1, DataOffsetOf + FrameSlotSizeOf,
                    MaxShmSize}
    /\ dropFramesWhenFull = TRUE
    /\ seg = [NoSegment EXCEPT !.exists = TRUE, !.size = shmSize]
    /\ hnd = [NewHandle("POSIX_SHM", TRUE, shmSize, FALSE) EXCEPT
                 !.isServer = TRUE, !.mapped = TRUE, !.pc = "setup"]
    /\ att = NewAttacher("new")
    /\ writeIndex = 0 /\ readIndex = 0 /\ frameCount = 0
    /\ totalFramesWritten = 0 /\ totalFramesRead = 0 /\ droppedFrames = 0
    /\ mem = [a \in Offsets |-> RawCell(0)]
    /\ pcW = "idle" /\ wFrame = NoFrame /\ wTimeout = 0 /\ wIdx = 0 /\ wRd = 0
    /\ wStatus = "NONE"
    /\ pcR = "idle" /\ rWait = 0 /\ rIdx = 0 /\ rWr = 0 /\ rCnt = 0
    /\ rHdr = RawHeader(0) /\ rView = <<>> /\ rStatus = "NONE"
    /\ lStatus = "NONE" /\ LatestIdle
    /\ ntf = NoWatcher
    /\ AuxIdle
    /\ published = <<>>
    /\ writer = [a \in Offsets |-> -1]
    /\ wEntry = NoEntry /\ rEntry = 0
    /\ wDirty = FALSE /\ rClean = TRUE /\ seen = <<>>

\* new(controlBlock) ControlBlock(), the counters stored 0, active.store(true)
S_ControlBlock ==
    /\ hnd.pc = "setup"
    /\ seg' = [seg EXCEPT !.active = TRUE]
    /\ hnd' = [hnd EXCEPT !.pc = "fields"]
    /\ UNCHANGED <<shmSize, dropFramesWhenFull, att, ringVars>>

\* controlBlock->metadataOffset, controlBlock->metadataSize
S_MetadataFields ==
    /\ hnd.pc = "fields"
    /\ seg' = [seg EXCEPT !.metadataSize = MetadataAreaSize]
    /\ hnd' = [hnd EXCEPT !.pc = "json"]
    /\ UNCHANGED <<shmSize, dropFramesWhenFull, att, ringVars>>

\* frameSlotSize, maxFrames, the metadata JSON copied into the metadata area;
\* initializePosixShm and initialize return OK
S_MetadataJson ==
    /\ hnd.pc = "json"
    /\ seg' = [seg EXCEPT !.maxFrames = MaxFramesOf(shmSize),
                          !.frameSlotSize = FrameSlotSizeOf]
    /\ hnd' = IReturn([hnd EXCEPT !.maxFrames = MaxFramesOf(shmSize)], "OK")
    /\ UNCHANGED <<shmSize, dropFramesWhenFull, att, ringVars>>

\* ~SharedMemory and Impl::cleanup of the creator: munmap, close, shm_unlink.
\* The name is gone; the memory stays as it is for the processes that mapped it.
Destroy ==
    /\ hnd.pc = "done"
    /\ hnd' = [hnd EXCEPT !.pc = "destroyed", !.mapped = FALSE, !.isInitialized = FALSE]
    /\ seg' = [seg EXCEPT !.exists = FALSE]
    /\ UNCHANGED <<shmSize, dropFramesWhenFull, att, ringVars>>

CreatorNext ==
    \/ S_ControlBlock
    \/ S_MetadataFields
    \/ S_MetadataJson
    \/ Destroy

\* The return of the attacher's initialize.
AReturn(a, status) ==
    [a EXCEPT !.pc = "done", !.status = status, !.isInitialized = (status = "OK")]

\* attach: shm_open, fstat, mmap, controlBlock = mapping
A_Map ==
    /\ att.pc = "new"
    /\ att' = IF seg.exists THEN [att EXCEPT !.mapped = TRUE, !.pc = "poll"]
              ELSE AReturn(att, "CREATION_FAILED")
    /\ UNCHANGED <<shmSize, dropFramesWhenFull, seg, hnd, ringVars>>

\* the wait loop: active not set, attempts < 100: usleep(10000), attempts++
A_Poll ==
    /\ att.pc = "poll"
    /\ ~seg.active
    /\ att.attempts < AttachAttempts
    /\ att' = [att EXCEPT !.attempts = att.attempts + 1]
    /\ UNCHANGED <<shmSize, dropFramesWhenFull, seg, hnd, ringVars>>

\* Variant of A_GiveUp: the mapping is kept when the attach gives up.
A_GiveUpStillMapped ==
    /\ att.pc = "poll"
    /\ ~seg.active
    /\ att.attempts >= AttachAttempts
    /\ att' = AReturn(att, "INTERNAL_ERROR")
    /\ UNCHANGED <<shmSize, dropFramesWhenFull, seg, hnd, ringVars>>

\* attempts exhausted and active still not set: munmap, close, INTERNAL_ERROR
A_GiveUp ==
    /\ att.pc = "poll"
    /\ ~seg.active
    /\ att.attempts >= AttachAttempts
    /\ att' = AReturn([att EXCEPT !.mapped = FALSE], "INTERNAL_ERROR")
    /\ UNCHANGED <<shmSize, dropFramesWhenFull, seg, hnd, ringVars>>

\* (size - dataOffset) / frameSlotSize of the fallbacks, not clamped
AttachFallbackFrames(dataOffset) ==
    IF seg.size > dataOffset THEN (seg.size - dataOffset) \div FrameSlotSizeOf ELSE 0

\* active is set: metadataAreaSize = controlBlock->metadataSize, dataOffset,
\* frame_slot_size and max_frames parsed from the metadata area; when the
\* parse fails or gives 0, the estimate and (size - dataOffset) / frameSlotSize.
A_Read ==
    /\ att.pc = "poll"
    /\ seg.active
    /\ LET dataOffset == ControlBlockSize + seg.metadataSize
           parsed == seg.metadataSize > 0 /\ seg.maxFrames >= 1 /\ seg.frameSlotSize > 0
       IN att' = AReturn(
              [att EXCEPT !.dataOffset = dataOffset,
                          !.frameSlotSize = IF parsed THEN seg.frameSlotSize
                                            ELSE FrameSlotSizeOf,
                          !.maxFrames = IF parsed THEN seg.maxFrames
                                        ELSE AttachFallbackFrames(dataOffset)],
              "OK")
    /\ UNCHANGED <<shmSize, dropFramesWhenFull, seg, hnd, ringVars>>

AttacherNext ==
    \/ A_Map
    \/ A_Poll
    \/ A_GiveUp
    \/ A_Read

NextAttach == CreatorNext \/ AttacherNext

\* A creator setting the segment up, or stopped on the way, and a process
\* attaching to it at any moment.
SpecAttach == InitAttach /\ [][NextAttach]_vars

\* The attaching process keeps running.
SpecAttachFair == SpecAttach /\ WF_vars(AttacherNext)

\* ------------------------------------------------------------ the frame callback
\* registerFrameCallback, unregisterFrameCallback and notificationThread on a
\* handle attached with create = false.  One thread owns the registration (it
\* registers and unregisters); a second thread registers a callback of its
\* own.  The notification thread gets its frames from readNextFrame(frame, 0),
\* the steps of the sequential reader above; no other reader runs.
ApiThreads == {"owner", "other"}

\* The callback each thread registers.
CallbackOf(t) == IF t = "owner" THEN 1 ELSE 2

\* The frames the producer is given: they fit the slot and are copied into it.
NotifyFrames == {MkFrame(EstimatedPixels, FALSE)}

\* What the callback machinery does not store.
notNtf == <<cfgVars, cbVars, mem, published, writer, wVars, rVars, lStatus, lLocals, auxVars>>

\* A segment of the given number of slots, created and active; the second
\* handle has attached to it with OK.
NotifyStart(slots) ==
    /\ shmSize = DataOffsetOf + slots * FrameSlotSizeOf
    /\ dropFramesWhenFull = TRUE
    /\ seg = CreatedSegment(shmSize)
    /\ hnd = CreatorHandle(shmSize)
    /\ att = AReturn([NewAttacher("new") EXCEPT !.mapped = TRUE,
                         !.dataOffset = DataOffsetOf,
                         !.maxFrames = MaxFramesOf(shmSize),
                         !.frameSlotSize = FrameSlotSizeOf], "OK")
    /\ writeIndex = 0 /\ readIndex = 0 /\ frameCount = 0
    /\ totalFramesWritten = 0 /\ totalFramesRead = 0 /\ droppedFrames = 0
    /\ mem = [a \in Offsets |-> RawCell(0)]
    /\ pcW = "idle" /\ wFrame = NoFrame /\ wTimeout = 0 /\ wIdx = 0 /\ wRd = 0
    /\ wStatus = "NONE"
    /\ pcR = "idle" /\ rWait = 0 /\ rIdx = 0 /\ rWr = 0 /\ rCnt = 0
    /\ rHdr = RawHeader(0) /\ rView = <<>> /\ rStatus = "NONE"
    /\ lStatus = "NONE" /\ LatestIdle
    /\ ntf = NoWatcher
    /\ AuxIdle
    /\ published = <<>>
    /\ writer = [a \in Offsets |-> -1]
    /\ wEntry = NoEntry /\ rEntry = 0
    /\ wDirty = FALSE /\ rClean = TRUE /\ seen = <<>>

\* std::unique_lock<std::mutex> lock(callbackMutex_) of registerFrameCallback
registerLock(t) ==
    /\ ntf.api[t] = "idle"
    /\ ntf.mutex = "free"
    /\ ntf' = [ntf EXCEPT !.mutex = t, !.api[t] = "register"]
    /\ UNCHANGED notNtf

\* Variant of registerFrameCallback: the thread is started without looking at
\* callbackThread_.joinable().
registerFrameCallbackAlwaysStarts(t) ==
    /\ ntf.api[t] = "register"
    /\ ntf' = [ntf EXCEPT !.frameCallback = CallbackOf(t),
                          !.cancelled = FALSE,
                          !.stop = IF att.isInitialized THEN FALSE ELSE @,
                          !.joinable = IF att.isInitialized THEN TRUE ELSE @,
                          !.live = IF att.isInitialized THEN @ + 1 ELSE @,
                          !.pc = IF att.isInitialized THEN "entry" ELSE @,
                          !.mutex = "free",
                          !.api[t] = "idle"]
    /\ UNCHANGED notNtf

\* frameCallback_ = std::move(callback);
\* if (isInitialized_ && !config_.create && !callbackThread_.joinable()):
\* stopCallbackThread_ = false, callbackThread_ = std::thread(notificationThread);
\* return OK (the lock is released)
registerFrameCallback(t) ==
    /\ ntf.api[t] = "register"
    /\ ntf' = [ntf EXCEPT !.frameCallback = CallbackOf(t),
                          !.cancelled = FALSE,
                          !.stop = IF att.isInitialized /\ ~ntf.joinable THEN FALSE ELSE @,
                          !.joinable = IF att.isInitialized /\ ~ntf.joinable THEN TRUE ELSE @,
                          !.live = IF att.isInitialized /\ ~ntf.joinable THEN @ + 1 ELSE @,
                          !.pc = IF att.isInitialized /\ ~ntf.joinable THEN "entry" ELSE @,
                          !.mutex = "free",
                          !.api[t] = "idle"]
    /\ UNCHANGED notNtf

\* std::unique_lock<std::mutex> lock(callbackMutex_) of unregisterFrameCallback
unregisterLock ==
    /\ ntf.api["owner"] = "idle"
    /\ ntf.mutex = "free"
    /\ ntf' = [ntf EXCEPT !.mutex = "owner", !.api["owner"] = "unregister"]
    /\ UNCHANGED notNtf

\* Variant of unregisterStop: the lock is released and the thread joined
\* without stopCallbackThread_ being set.
unregisterStopNoFlag ==
    /\ ntf.api["owner"] = "unregister"
    /\ ntf' = IF ntf.joinable
                THEN [ntf EXCEPT !.mutex = "free", !.api["owner"] = "join"]
                ELSE [ntf EXCEPT !.api["owner"] = "clear"]
    /\ UNCHANGED notNtf

\* if (callbackThread_.joinable()): stopCallbackThread_ = true; lock.unlock()
unregisterStop ==
    /\ ntf.api["owner"] = "unregister"
    /\ ntf' = IF ntf.joinable
                THEN [ntf EXCEPT !.stop = TRUE, !.mutex = "free", !.api["owner"] = "join"]
                ELSE [ntf EXCEPT !.api["owner"] = "clear"]
    /\ UNCHANGED notNtf

\* callbackThread_.join() returns once notificationThread has returned
unregisterJoin ==
    /\ ntf.api["owner"] = "join"
    /\ ntf.pc = "exited"
    /\ ntf' = [ntf EXCEPT !.joinable = FALSE, !.api["owner"] = "relock"]
    /\ UNCHANGED notNtf

\* lock.lock()
unregisterRelock ==
    /\ ntf.api["owner"] = "relock"
    /\ ntf.mutex = "free"
    /\ ntf' = [ntf EXCEPT !.mutex = "owner", !.api["owner"] = "clear"]
    /\ UNCHANGED notNtf

\* frameCallback_ = nullptr; return OK (the lock is released)
unregisterClear ==
    /\ ntf.api["owner"] = "clear"
    /\ ntf' = [ntf EXCEPT !.frameCallback = 0, !.cancelled = TRUE,
                          !.mutex = "free", !.api["owner"] = "idle"]
    /\ UNCHANGED notNtf

ApiNext ==
    \/ \E t \in ApiThreads : registerLock(t)
    \/ \E t \in ApiThreads : registerFrameCallback(t)
    \/ unregisterLock
    \/ unregisterStop
    \/ unregisterJoin
    \/ unregisterRelock
    \/ unregisterClear

\* notificationThread, entry: return if not initialized;
\* lastReadIndex = readIndex.load
N_Entry ==
    /\ ntf.pc = "entry"
    /\ ntf' = IF att.isInitialized
                THEN [ntf EXCEPT !.last = readIndex, !.pc = "test"]
                ELSE [ntf EXCEPT !.pc = "exited", !.live = @ - 1]
    /\ UNCHANGED notNtf

\* while (!stopCallbackThread_), reached at the start and after each 1 ms sleep
N_Test ==
    /\ ntf.pc = "test"
    /\ ntf' = IF ntf.stop
                THEN [ntf EXCEPT !.pc = "exited", !.live = @ - 1]
                ELSE [ntf EXCEPT !.pc = "poll"]
    /\ UNCHANGED notNtf

\* writeIndex.load; if (writeIndex > lastReadIndex) the for loop starts at
\* i = lastReadIndex; otherwise sleep
N_Poll ==
    /\ ntf.pc = "poll"
    /\ ntf' = IF writeIndex > ntf.last
                THEN [ntf EXCEPT !.wr = writeIndex, !.i = ntf.last, !.pc = "iter"]
                ELSE [ntf EXCEPT !.wr = writeIndex, !.pc = "test"]
    /\ UNCHANGED notNtf

\* for (i = lastReadIndex; i < writeIndex; ++i): the test of the loop.  Inside,
\* readNextFrame(frame, 0) is called; after the loop lastReadIndex = writeIndex
\* and the thread sleeps.
N_Iter ==
    /\ ntf.pc = "iter"
    /\ IF ntf.i < ntf.wr
         THEN /\ ntf' = [ntf EXCEPT !.pc = "reading"]
              /\ rStatus' = "CALLING"
         ELSE /\ ntf' = [ntf EXCEPT !.last = ntf.wr, !.pc = "test"]
              /\ UNCHANGED rStatus
    /\ UNCHANGED <<pcR, rWait, rIdx, rWr, rCnt, rHdr, rView, rEntry, rClean, seen>>
    /\ UNCHANGED <<cfgVars, cbVars, mem, published, writer, wVars, lStatus, lLocals, auxVars>>

\* readNextFrame(frame, 0), run by the notification thread
N_Read ==
    /\ ntf.pc = "reading"
    /\ \/ rStatus = "CALLING" /\ R_Call(0)
       \/ rStatus # "CALLING" /\ (R_Header \/ R_Commit \/ R_LoadCount \/ R_Finish)

\* if (readNextFrame(frame, 0) == Status::OK && frame): go on to the callback;
\* otherwise the loop goes to its next i
N_Got ==
    /\ ntf.pc = "reading"
    /\ pcR = "idle"
    /\ rStatus \notin {"CALLING", "RUNNING"}
    /\ ntf' = IF rStatus = "OK"
                THEN [ntf EXCEPT !.pc = "lock"]
                ELSE [ntf EXCEPT !.i = @ + 1, !.pc = "iter"]
    /\ UNCHANGED notNtf

\* std::unique_lock<std::mutex> lock(callbackMutex_) of the notification thread
N_Lock ==
    /\ ntf.pc = "lock"
    /\ ntf.mutex = "free"
    /\ ntf' = [ntf EXCEPT !.mutex = "watcher", !.pc = "locked"]
    /\ UNCHANGED notNtf

\* if (frameCallback_) frameCallback_(frame): the invocation begins
N_Invoke ==
    /\ ntf.pc = "locked"
    /\ ntf' = IF ntf.frameCallback # 0
                THEN [ntf EXCEPT !.inCallback = @ + 1,
                                 !.delivered = Append(@, rHdr.sequenceNumber),
                                 !.pc = "call"]
                ELSE [ntf EXCEPT !.mutex = "free", !.i = @ + 1, !.pc = "iter"]
    /\ UNCHANGED notNtf

\* the callback returns; the lock is released; ++i
N_Return ==
    /\ ntf.pc = "call"
    /\ ntf' = [ntf EXCEPT !.inCallback = @ - 1, !.mutex = "free",
                          !.i = @ + 1, !.pc = "iter"]
    /\ UNCHANGED notNtf

\* The steps of the notification thread that wait for nothing.
WatcherSteps ==
    \/ N_Entry
    \/ N_Test
    \/ N_Poll
    \/ N_Iter
    \/ N_Read
    \/ N_Got
    \/ N_Invoke
    \/ N_Return

WatcherNext == WatcherSteps \/ N_Lock

\* writeFrame(frame) of the creator, dropFramesWhenFull set
NotifyProducerNext ==
    \/ \E f \in NotifyFrames : W_Call(f, 0)
    \/ W_Drop
    \/ W_Header
    \/ W_Copy
    \/ W_Publish
    \/ W_Finish

NextNotify == NotifyProducerNext \/ ApiNext \/ WatcherNext

\* Two slots: the notification thread may find two new frames at one poll.
InitNotify == NotifyStart(2)

SpecNotify == InitNotify /\ [][NextNotify]_vars

\* One slot: the producer is refused as soon as the thread is one frame behind.
InitNotifyOneSlot == NotifyStart(1)

\* Every thread that is inside a call goes on: the notification thread runs,
\* a started register or unregister call is completed, the callback returns,
\* and a thread waiting for callbackMutex_ gets it when it is released again
\* and again.  The producer and the callers of the two calls are free to stop.
SpecNotifyFair ==
    /\ InitNotifyOneSlot
    /\ [][NextNotify]_vars
    /\ WF_vars(WatcherSteps)
    /\ SF_vars(N_Lock)
    /\ WF_vars(\E t \in ApiThreads : registerFrameCallback(t))
    /\ WF_vars(unregisterStop \/ unregisterJoin \/ unregisterClear)
    /\ SF_vars(unregisterRelock)

\* ------------------------------------------------------------ a callback that throws
\* frameCallback_(frame) is called with no try block around it, in a function
\* that is the body of a std::thread: an exception that leaves the callback
\* leaves notificationThread, and std::terminate ends the process, the
\* notification thread with it.
N_Throw ==
    /\ ntf.pc = "call"
    /\ ntf' = [ntf EXCEPT !.inCallback = @ - 1, !.live = @ - 1, !.pc = "terminated"]
    /\ UNCHANGED notNtf

NextNotifyThrow == NextNotify \/ N_Throw

\* The callback may return or throw.
SpecNotifyThrow == InitNotifyOneSlot /\ [][NextNotifyThrow]_vars

\* ------------------------------------------------------------ statistics
\* SharedMemory::getStatistics of the creator's handle: stats_ takes the three
\* counters of the control block and is returned (call.res).
getStatistics ==
    /\ call' = [op |-> "getStatistics", arg |-> <<>>,
                res |-> <<totalFramesWritten, totalFramesRead, droppedFrames>>,
                status |-> "NONE"]
    /\ UNCHANGED <<cfgVars, cbVars, mem, published, writer, wVars, rVars>>
    /\ UNCHANGED <<lStatus, lLocals, ntf, meta, cons>>

\* SharedMemory::resetStatistics of the creator's handle: stats_ = {}; if
\* (isInitialized_ && controlBlock && config_.create) droppedFrames.store(0)
resetStatistics ==
    /\ call' = [op |-> "resetStatistics", arg |-> <<>>, res |-> <<0, 0, 0>>,
                status |-> "NONE"]
    /\ droppedFrames' = IF hnd.isInitialized /\ hnd.mapped /\ hnd.create
                          THEN 0 ELSE droppedFrames
    /\ UNCHANGED <<writeIndex, readIndex, frameCount, totalFramesWritten, totalFramesRead>>
    /\ UNCHANGED <<cfgVars, mem, published, writer, wVars, rVars>>
    /\ UNCHANGED <<lStatus, lLocals, ntf, meta, cons>>

StatisticsNext == getStatistics \/ resetStatistics

NextStatistics == Next \/ StatisticsNext

\* The producer and the reader, and the statistics calls of the creator's handle.
SpecStatistics == Init /\ [][NextStatistics]_vars

\* ------------------------------------------------------------ updateMetadata
\* SharedMemory::updateMetadata(key, value) of the creator's handle; the value
\* has n bytes.
updateMetadata(key, n) ==
    /\ LET r == updateMetadataJson(meta, WithMember(readMetadataJson(meta), key, n))
       IN  IF ~hnd.isInitialized \/ ~hnd.mapped
             THEN /\ call' = [op |-> "updateMetadata", arg |-> <<key, n>>, res |-> <<>>,
                              status |-> "NOT_INITIALIZED"]
                  /\ UNCHANGED meta
             ELSE /\ call' = [op |-> "updateMetadata", arg |-> <<key, n>>, res |-> <<>>,
                              status |-> IF r.ok THEN "OK" ELSE "WRITE_FAILED"]
                  /\ meta' = r.area
    /\ UNCHANGED <<cfgVars, cbVars, mem, published, writer, wVars, rVars>>
    /\ UNCHANGED <<lStatus, lLocals, ntf, cons>>

\* if (config_.enableMetadata) of writeFrameTimeout: the document is read,
\* "last_frame" is set from the frame (n bytes) and updateMetadataJson is
\* called; what it returns is not looked at.
writeFrameMetadata(n) ==
    /\ hnd.isInitialized /\ hnd.mapped
    /\ meta' = updateMetadataJson(meta,
                   WithMember(readMetadataJson(meta), "last_frame", n)).area
    /\ call' = [op |-> "writeFrameTimeout", arg |-> <<"last_frame", n>>, res |-> <<>>,
                status |-> "NONE"]
    /\ UNCHANGED <<cfgVars, cbVars, mem, published, writer, wVars, rVars>>
    /\ UNCHANGED <<lStatus, lLocals, ntf, cons>>

NextMetadata ==
    \/ \E key \in {"a", "b"}, n \in ValueLengths : updateMetadata(key, n)
    \/ \E n \in ValueLengths : writeFrameMetadata(n)

\* The metadata area of a created segment under updateMetadata calls and the
\* producer's own updates.
SpecMetadata == Init /\ [][NextMetadata]_vars

\* ------------------------------------------------------------ format names and codes
\* The names the frame sources use, the canonical names, and names no branch
\* of getFormatCode tests for.
FormatNames ==
    {"YUV", "YUV422", "BGRA", "RGB", "RGBA", "YUV10", "YUV422_10", "RGB10",
     "Unknown", "GRAY", "yuv", "NV12", ""}

\* uint32_t formatCode: the codes of one byte, and one beyond.
FormatCodes == 0 .. 256

\* A name or a code is given (call.res); nothing has been converted yet.
InitFormat ==
    /\ CreatedRing
    /\ meta = CreatedMetadata
    /\ cons = NoConsumers
    /\ \/ \E s \in FormatNames :
             call = [op |-> "name", arg |-> <<>>, res |-> s, status |-> "NONE"]
       \/ \E c \in FormatCodes :
             call = [op |-> "code", arg |-> <<>>, res |-> c, status |-> "NONE"]

\* getFormatCode applied to the name at hand; call.arg keeps what was
\* converted so far.
F_Encode ==
    /\ call.op \in {"name", "getFormatString"}
    /\ Len(call.arg) < 2
    /\ call' = [op |-> "getFormatCode", arg |-> Append(call.arg, call.res),
                res |-> getFormatCode(call.res), status |-> "NONE"]
    /\ UNCHANGED <<cfgVars, cbVars, mem, published, writer, wVars, rVars>>
    /\ UNCHANGED <<lStatus, lLocals, ntf, meta, cons>>

\* getFormatString applied to the code at hand
F_Decode ==
    /\ call.op \in {"code", "getFormatCode"}
    /\ Len(call.arg) < 2
    /\ call' = [op |-> "getFormatString", arg |-> Append(call.arg, call.res),
                res |-> getFormatString(call.res), status |-> "NONE"]
    /\ UNCHANGED <<cfgVars, cbVars, mem, published, writer, wVars, rVars>>
    /\ UNCHANGED <<lStatus, lLocals, ntf, meta, cons>>

NextFormat == F_Encode \/ F_Decode

\* Each name and each code, converted there and back.
SpecFormat == InitFormat /\ [][NextFormat]_vars

\* ------------------------------------------------------------ calls on a handle, initialized or not
RingCalls == {"writeFrame", "writeFrameTimeout", "readLatestFrame", "readNextFrame"}

\* writeFrame, writeFrameTimeout, readLatestFrame and readNextFrame as called
\* on the handle hnd while no initialize call is running.  Each begins with
\* if (!isInitialized_ || !impl_->controlBlock) return NOT_INITIALIZED; past
\* it the call is the one of the sections above.  Past the test only the
\* creator's calls are followed: the ring of an attached handle is the ring of
\* another process.
RingCall(op) ==
    /\ op \in RingCalls
    /\ hnd.pc \in {"new", "done"}
    /\ IF ~hnd.isInitialized \/ ~hnd.mapped
         THEN /\ wStatus' = IF op \in {"writeFrame", "writeFrameTimeout"}
                              THEN "NOT_INITIALIZED" ELSE wStatus
              /\ lStatus' = IF op = "readLatestFrame" THEN "NOT_INITIALIZED" ELSE lStatus
              /\ rStatus' = IF op = "readNextFrame" THEN "NOT_INITIALIZED" ELSE rStatus
              /\ UNCHANGED <<cfgVars, cbVars, mem, published, writer>>
              /\ UNCHANGED <<pcW, wFrame, wTimeout, wIdx, wRd, wEntry, wDirty>>
              /\ UNCHANGED <<pcR, rWait, rIdx, rWr, rCnt, rHdr, rView, rEntry, rClean, seen>>
              /\ UNCHANGED <<lLocals, ntf, auxVars>>
         ELSE /\ hnd.create
              /\ \/ op = "writeFrame" /\ \E f \in NotifyFrames : W_Call(f, 0)
                 \/ op = "writeFrameTimeout" /\ \E f \in NotifyFrames : W_Call(f, 1)
                 \/ op = "readLatestFrame" /\ readLatestFrame
                 \/ op = "readNextFrame" /\ R_Call(0)

\* Variant of initializeAgain: no test of isInitialized_; the segment is set up
\* once more.
initializeAgainSetsUp ==
    /\ hnd.pc = "done"
    /\ hnd.isInitialized
    /\ hnd.create
    /\ call' = [op |-> "initialize", arg |-> <<>>, res |-> <<>>, status |-> "OK"]
    /\ writeIndex' = 0 /\ readIndex' = 0 /\ frameCount' = 0
    /\ totalFramesWritten' = 0 /\ totalFramesRead' = 0 /\ droppedFrames' = 0
    /\ mem' = [a \in Offsets |-> RawCell(0)]
    /\ UNCHANGED <<cfgVars, published, writer, wVars, rVars>>
    /\ UNCHANGED <<lStatus, lLocals, ntf, meta, cons>>

\* SharedMemory::initialize called on a handle that is initialized:
\* if (isInitialized_) return ALREADY_EXISTS
initializeAgain ==
    /\ hnd.pc = "done"
    /\ hnd.isInitialized
    /\ call' = [op |-> "initialize", arg |-> <<>>, res |-> <<>>,
                status |-> "ALREADY_EXISTS"]
    /\ UNCHANGED <<cfgVars, cbVars, mem, published, writer, wVars, rVars>>
    /\ UNCHANGED <<lStatus, lLocals, ntf, meta, cons>>

\* The handles of InitHandle whose configured size is 0 or that of one slot.
InitAnyHandle ==
    /\ InitHandle
    /\ hnd.cfgSize \in {0, DataOffsetOf + FrameSlotSizeOf}

NextAnyHandle ==
    \/ NextInit
    \/ \E op \in RingCalls : RingCall(op)
    \/ hnd.pc \in {"new", "done"} /\ updateMetadata("a", 1)
    \/ initializeAgain
    \/ hnd.isInitialized /\ (W_WaitExpire \/ W_WaitRecheck \/ W_Drop \/ W_Header \/ W_Copy
                                \/ W_Publish \/ W_Finish)
    \/ hnd.isInitialized /\ (R_Header \/ R_Commit \/ R_LoadCount \/ R_Finish)

\* A handle from its construction on: calls before initialize, calls after a
\* failed initialize, and calls, initialize among them, after initialize
\* returned OK.
SpecAnyHandle == InitAnyHandle /\ [][NextAnyHandle]_vars

\* ------------------------------------------------------------ two callers of readNextFrame
\* The caller other than c.
OtherConsumer(c) == CHOOSE o \in Consumers : o # c

\* readNextFrame(frame, 0) as called by consumer c, one step at a time: the
\* entry (readIndex.load, writeIndex.load, BUFFER_EMPTY when no frame is
\* available, INTERNAL_ERROR when the slot or the mapping of the frame is not
\* to be had; the header the call reads is not kept here);
\* readIndex.store(readIndex + 1); frameCount.load; frameCount.store,
\* totalFramesRead.fetch_add(1) and the return of OK.  got: the ring index of
\* each frame returned OK.  overlapped: a call began while the call of the
\* other consumer was running.
readNextFrameBy(c) ==
    LET me == cons.rd[c]
        Becomes(r) == cons' = [cons EXCEPT !.rd[c] = r]
    IN  /\ UNCHANGED <<cfgVars, mem, published, writer, wVars, rVars>>
        /\ UNCHANGED <<lStatus, lLocals, ntf, meta, call>>
        /\ UNCHANGED <<writeIndex, totalFramesWritten, droppedFrames>>
        /\ \/ /\ me.pc = "idle"
              /\ \E r \in IF NoFrameAvailable(readIndex, writeIndex)
                            THEN {[me EXCEPT !.status = "BUFFER_EMPTY"]}
                          ELSE IF getFrameHeader(readIndex) = -1 \/ getFrameData(readIndex) = -1
                            THEN {[me EXCEPT !.status = "INTERNAL_ERROR"]}
                          ELSE {[me EXCEPT !.status = "INTERNAL_ERROR"],
                                [me EXCEPT !.pc = "commit", !.idx = readIndex,
                                           !.status = "RUNNING"]} :
                    cons' = [cons EXCEPT
                                !.overlapped = @ \/ cons.rd[OtherConsumer(c)].pc # "idle",
                                !.rd[c] = r]
              /\ UNCHANGED <<readIndex, frameCount, totalFramesRead>>
           \/ /\ me.pc = "commit"
              /\ readIndex' = NextReadIndex(me.idx)
              /\ Becomes([me EXCEPT !.pc = "loadCount"])
              /\ UNCHANGED <<frameCount, totalFramesRead>>
           \/ /\ me.pc = "loadCount"
              /\ Becomes([me EXCEPT !.pc = "storeCount", !.cnt = frameCount])
              /\ UNCHANGED <<readIndex, frameCount, totalFramesRead>>
           \/ /\ me.pc = "storeCount"
              /\ frameCount' = IF me.cnt > 0 THEN me.cnt - 1 ELSE frameCount
              /\ totalFramesRead' = totalFramesRead + 1
              /\ Becomes([me EXCEPT !.pc = "idle", !.status = "OK", !.cnt = 0, !.idx = 0,
                                    !.got = Append(@, me.idx)])
              /\ UNCHANGED readIndex

NextConsumers ==
    \/ NotifyProducerNext
    \/ \E c \in Consumers : readNextFrameBy(c)

\* One producer and two callers of readNextFrame on a segment of one slot.
SpecConsumers == InitNotifyOneSlot /\ [][NextConsumers]_vars

\* ========================================================== the claims
\* The frame a successful readNextFrame built equals the frame f the producer
\* was given: the header fields copied from the slot and the bytes of the view.
FrameMatches(f, h, view) ==
    /\ h.frameId = f.frameId
    /\ h.timestamp = f.timestamp
    /\ h.width = f.width
    /\ h.height = f.height
    /\ h.bytesPerPixel = f.bytesPerPixel
    /\ h.dataSize = Len(f.data)
    /\ h.formatCode = getFormatCode(f.format)
    /\ view = f.data

ReadReturnedOK == pcR = "idle" /\ rStatus = "OK"

\* C1: a readNextFrame that returned OK for index k has read a slot whose
\* header and pixel bytes were all stored by write number k.
C1_SlotWrittenByItsWrite == ReadReturnedOK => rClean

\* C2: the frame readNextFrame returned for index k has the frameId, timestamp,
\* width, height, bytesPerPixel, dataSize, format code and pixel bytes of the
\* frame given to the k-th successful write, copy path or in-place path.
C2_RoundTrip == ReadReturnedOK => FrameMatches(published[rIdx + 1], rHdr, rView)

C4_OccupancyBounded ==
    /\ writeIndex - readIndex <= maxFrames
    /\ pcW \in {"header", "copy", "publish", "count"} => wIdx - wRd < maxFrames

\* C4, witness: the ring is full with two frames after the reader has advanced.
C4_RingFull ==
    /\ maxFrames = 2 /\ readIndex = 1 /\ writeIndex = 3
    /\ pcW = "idle" /\ wStatus = "OK"

\* C5: writeIndex >= readIndex in every reachable state, with one producer,
\* one sequential reader and a latest-frame reader.
C5_WriteNotBehindRead == writeIndex >= readIndex

\* C5, witness: the sequential reader has consumed every published frame and
\* the latest-frame reader was told so.
C5_ReaderCaughtUp ==
    /\ readIndex = writeIndex /\ readIndex >= 2
    /\ pcR = "idle" /\ lStatus = "BUFFER_EMPTY"

\* C6: writeIndex and readIndex start at 0 and no step of writeFrame,
\* writeFrameTimeout, readNextFrame or readLatestFrame decreases either.
C6_IndicesMonotone ==
    /\ writeIndex = 0 /\ readIndex = 0
    /\ [][writeIndex' >= writeIndex /\ readIndex' >= readIndex]_vars

\* C6, witness: both indices have advanced twice and readLatestFrame has run.
C6_BothAdvanced == writeIndex >= 2 /\ readIndex >= 2 /\ lStatus = "OK"

\* C7: a write call that returned OK has raised writeIndex and
\* totalFramesWritten by exactly 1; one that returned any other status has
\* left both as they were when it was called.
C7_WriteCounts ==
    pcW = "idle" =>
        /\ wStatus = "OK" =>
              /\ writeIndex = wEntry.writeIndex + 1
              /\ totalFramesWritten = wEntry.totalFramesWritten + 1
        /\ wStatus \in {"BUFFER_FULL", "INVALID_SIZE", "INTERNAL_ERROR", "TIMEOUT"} =>
              /\ writeIndex = wEntry.writeIndex
              /\ totalFramesWritten = wEntry.totalFramesWritten

\* C7, witness: the second write has returned OK.
C7_SecondWriteOK == pcW = "idle" /\ wStatus = "OK" /\ wEntry.writeIndex = 1

\* C8: a readNextFrame that returned OK has raised readIndex and
\* totalFramesRead by exactly 1; one that returned any other status has left
\* both as they were when it was called.
C8_ReadCounts ==
    pcR = "idle" =>
        /\ rStatus = "OK" =>
              /\ readIndex = rIdx + 1
              /\ totalFramesRead = rEntry + 1
        /\ rStatus \in {"BUFFER_EMPTY", "TIMEOUT", "INTERNAL_ERROR"} =>
              /\ readIndex = rIdx
              /\ totalFramesRead = rEntry

\* C8, witness: the second read has returned OK.
C8_SecondReadOK == ReadReturnedOK /\ rIdx = 1 /\ rEntry = 1

\* The write call that just returned was the immediate drop: the buffer was
\* full, timeoutMs = 0 and dropFramesWhenFull is set.
DroppedAtOnce ==
    pcW = "idle" /\ wStatus = "BUFFER_FULL" /\ wTimeout = 0 /\ dropFramesWhenFull

\* No readNextFrame call has been made.
NoReaderYet == pcR = "idle" /\ rStatus = "NONE"

\* C9: the immediate drop returns BUFFER_FULL having raised droppedFrames by 1
\* and touched neither writeIndex, readIndex, frameCount, totalFramesWritten
\* nor any slot; with no reader, the first drop comes after exactly N writes
\* and leaves droppedFrames = 1.
C9_DropWhenFull ==
    DroppedAtOnce =>
        /\ droppedFrames = wEntry.droppedFrames + 1
        /\ ~wDirty
        /\ writeIndex = wEntry.writeIndex
        /\ totalFramesWritten = wEntry.totalFramesWritten
        /\ (NoReaderYet /\ wEntry.droppedFrames = 0) =>
              /\ writeIndex = maxFrames
              /\ totalFramesWritten = maxFrames
              /\ droppedFrames = 1

\* C9, witness: two slots, no reader, two writes returned OK and the third was
\* dropped at once.
C9_ThirdWriteDropped ==
    /\ DroppedAtOnce /\ NoReaderYet
    /\ maxFrames = 2 /\ totalFramesWritten = 2 /\ droppedFrames = 1

\* C10: with dropFramesWhenFull unset and timeoutMs = 0 a write into a full
\* buffer does not fail with BUFFER_FULL (it overwrites the oldest frame and
\* advances readIndex).
C10_OverwriteWhenFull ==
    (pcW = "idle" /\ wTimeout = 0 /\ ~dropFramesWhenFull) => wStatus # "BUFFER_FULL"

\* The write call that just returned gave up after a timed wait.
DroppedAfterWait == pcW = "idle" /\ wStatus = "BUFFER_FULL" /\ wTimeout > 0

\* C11: a timed write on a full buffer (a) that gives up returns BUFFER_FULL
\* having raised droppedFrames once and published nothing, and (b) gives up
\* only if no reader has advanced readIndex by the deadline: when a reader has
\* made room before the deadline the call goes on to write the frame.
C11_TimedWrite ==
    /\ [](DroppedAfterWait =>
             /\ droppedFrames = wEntry.droppedFrames + 1
             /\ ~wDirty
             /\ writeIndex = wEntry.writeIndex
             /\ totalFramesWritten = wEntry.totalFramesWritten)
    /\ [][(pcW = "wait" /\ pcW' = "drop") => BufferFull(wIdx, readIndex)]_vars

\* C12: droppedFrames changes only in the step by which a write call returns
\* BUFFER_FULL, or returns OK having advanced readIndex (overwrite policy);
\* no write that returns OK without advancing readIndex and no read changes it.
C12_DroppedOnlyOnRefusal ==
    [][droppedFrames' # droppedFrames =>
          /\ pcW' = "idle"
          /\ \/ wStatus' = "BUFFER_FULL"
             \/ wStatus' = "OK" /\ readIndex' > readIndex]_vars

\* The frame of the running write call is longer than the pixel room of a slot.
WritingOversize == Len(wFrame.data) > FrameSlotSizeOf - SizeofFrameHeader

\* C13: a write call whose frame has dataSize > slotSize - sizeof(FrameHeader)
\* stores nothing (no header, pixel byte, index or counter of the ring) and
\* ends with INVALID_SIZE (BUFFER_FULL when the full buffer refused it first).
C13_OversizeRejected ==
    /\ [](WritingOversize => ~wDirty)
    /\ [][(WritingOversize /\ pcW # "idle" /\ pcW' = "idle") =>
              wStatus' \in {"INVALID_SIZE", "BUFFER_FULL"}]_vars

\* The n slots addressed by Off occupy pairwise disjoint ranges of slotSize cells.
SlotsDisjoint(Off(_), n) ==
    \A i, j \in 0 .. (n - 1) :
        i # j => \/ Off(i) + FrameSlotSizeOf <= Off(j)
                 \/ Off(j) + FrameSlotSizeOf <= Off(i)

\* The header cell and the pixel cells of each of the last n published indices
\* still hold what the write of that index stored (first variant's addressing).
LastWritesIntact(n) ==
    \A k \in 0 .. (writeIndex - 1) :
        k + n >= writeIndex =>
            \A a \in LegacyFrameHeader(k) ..
                        (LegacyFrameData(k) + Len(published[k + 1].data) - 1) :
                a \in DOMAIN writer /\ writer[a] = k

\* C14: each frame-offset helper maps index i to dataOffset + (i mod N) * slotSize,
\* the N slots are pairwise disjoint, and a write to index i changes no header
\* or pixel byte that belongs to another index among the last N.
C14_SlotAddressing ==
    /\ \A i \in 0 .. MaxWrites :
          /\ calculateFrameOffset(i) = DataOffsetOf + (i % maxFrames) * FrameSlotSizeOf
          /\ getFrameOffset(i) = LegacyDataOffset + (i % LegacyMaxFrames) * FrameSlotSizeOf
    /\ SlotsDisjoint(calculateFrameOffset, maxFrames)
    /\ SlotsDisjoint(getFrameOffset, LegacyMaxFrames)
    /\ LastWritesIntact(LegacyMaxFrames)

\* ---------------------------------------------------------------- C15
InitializedAsCreator == hnd.pc = "done" /\ hnd.status = "OK" /\ hnd.create

\* C15: after initialize(create = true) returned OK the segment holds at
\* least one slot, dataOffset + N * slotSize <= S, and the slot of every index
\* lies inside the mapped segment.
C15_GeometryInsideSegment ==
    InitializedAsCreator =>
        /\ hnd.maxFrames >= 1
        /\ DataOffsetOf + hnd.maxFrames * FrameSlotSizeOf <= shmSize
        /\ \A i \in 0 .. MaxWrites :
              calculateFrameOffset(i) + FrameSlotSizeOf <= shmSize

\* ---------------------------------------------------------------- C16
BelowMinimumSize ==
    hnd.cfgSize < ControlBlockSize + MetadataAreaSize + SizeofFrameHeader + 1

\* C16: initialize with a configured size below controlBlockSize +
\* metadataSize + sizeof(FrameHeader) + 1 returns INVALID_SIZE on every
\* backend, creates and maps nothing, and leaves the handle uninitialized.
C16_SmallSizeRejected ==
    /\ [](BelowMinimumSize /\ hnd.pc = "done" =>
             /\ hnd.status = "INVALID_SIZE"
             /\ ~hnd.mapped
             /\ ~hnd.isInitialized)
    /\ [][BelowMinimumSize => seg' = seg]_vars

\* ---------------------------------------------------------------- C17
LatestReturnedOK == pcL = "idle" /\ lStatus = "OK"

\* The frames written so far were all copied into the slot and fit it.
WritesFitAndCopied ==
    \A f \in {published[i] : i \in 1 .. Len(published)} \cup {wFrame} :
        ~f.isMapped /\ Len(f.data) <= FrameSlotSizeOf - SizeofFrameHeader

\* C17: a frame readLatestFrame returned with OK has the header fields and the
\* pixel bytes of one write, the one whose sequenceNumber is the index
\* writeIndex - 1 the call selected; a slot the producer stored into while the
\* call ran is not returned as a valid frame.  Stated for frames that fit the
\* slot and were copied into it.
C17_LatestIsOneWrite ==
    (LatestReturnedOK /\ WritesFitAndCopied) =>
        /\ lClean
        /\ lHdr.sequenceNumber = lWr - 1
        /\ FrameMatches(published[lWr], lHdr, lView)

\* ---------------------------------------------------------------- C18
LatestReturned == pcL = "idle" /\ lStatus # "NONE"

\* C18: readLatestFrame returns BUFFER_EMPTY exactly when the writeIndex it
\* loaded is 0; with a frame published it does not, whatever readIndex is.
C18_EmptyOnlyBeforeFirstWrite ==
    LatestReturned => (lStatus = "BUFFER_EMPTY" <=> lWr = 0)

\* ---------------------------------------------------------------- C19
\* A step of a readLatestFrame call that loaded the writeIndex the call before
\* it had loaded, with no write call running then or now.
RepeatedLatestStep ==
    /\ lSame'
    /\ UNCHANGED <<wVars, rVars>>
    /\ pcW = "idle"
    /\ writeIndex = lWr'

\* C19: readLatestFrame calls with no write between them (readNextFrame calls
\* may come between) return the same status and, when OK, equal header
\* fields.  Calls that failed in mapping the frame are left aside.
C19_LatestIdempotent ==
    [][RepeatedLatestStep =>
          /\ (pcL' = "idle" /\ lStatus # "INTERNAL_ERROR" /\ lStatus' # "INTERNAL_ERROR")
                => lStatus' = lStatus
          /\ (pcL = "header" /\ pcL' = "finish" /\ lStatus = "OK")
                => lHdr' = lHdr]_vars

\* ---------------------------------------------------------------- C20
\* C20: a readLatestFrame call, whatever status it returns, leaves readIndex,
\* writeIndex, frameCount, totalFramesRead, totalFramesWritten and
\* droppedFrames as they were: every step that changes the status the
\* latest-frame reader holds leaves the six counters unchanged.
C20_LatestLeavesCounters ==
    [][lStatus' # lStatus =>
          /\ readIndex' = readIndex /\ writeIndex' = writeIndex
          /\ frameCount' = frameCount /\ totalFramesRead' = totalFramesRead
          /\ totalFramesWritten' = totalFramesWritten
          /\ droppedFrames' = droppedFrames]_vars

\* C20, witness: readLatestFrame has returned OK with two frames written, one
\* of them read, and neither the producer nor the sequential reader in a call.
C20_LatestAmongReads ==
    /\ lStatus = "OK" /\ pcW = "idle" /\ pcR = "idle"
    /\ writeIndex = 2 /\ readIndex = 1 /\ frameCount = 1
    /\ totalFramesWritten = 2 /\ totalFramesRead = 1

\* ---------------------------------------------------------------- C21
\* A step of readNextFrame made before the call has found a frame.
ReaderStepWithoutFrame == pcR \in {"idle", "wait"} /\ rVars' # rVars

\* C21: on an empty buffer readNextFrame returns BUFFER_EMPTY at once when
\* waitMilliseconds = 0 and TIMEOUT after waiting when waitMilliseconds > 0,
\* never the one for the other, and neither return nor the wait changes
\* readIndex, frameCount or totalFramesRead (lastReadTime is stored where
\* readIndex is, after a frame was found).
C21_EmptyReadStatuses ==
    /\ [][(rStatus' = "BUFFER_EMPTY" /\ rStatus' # rStatus) =>
             pcR = "idle" /\ pcR' = "idle" /\ NoFrameAvailable(readIndex, writeIndex)]_vars
    /\ [][(rStatus' = "TIMEOUT" /\ rStatus' # rStatus) =>
             pcR = "wait" /\ rWait > 0 /\ NoFrameAvailable(rIdx, rWr)]_vars
    /\ [][(pcR = "idle" /\ pcR' = "wait") =>
             rWait' > 0 /\ NoFrameAvailable(readIndex, writeIndex)]_vars
    /\ [][ReaderStepWithoutFrame =>
             /\ readIndex' = readIndex
             /\ frameCount' = frameCount
             /\ totalFramesRead' = totalFramesRead]_vars
    /\ [](pcR = "idle" /\ rStatus \in {"BUFFER_EMPTY", "TIMEOUT"} =>
             readIndex = rIdx /\ totalFramesRead = rEntry)

\* C21, witness: a waiting read has timed out after the one published frame
\* was consumed.
C21_TimedOutAfterRead ==
    /\ pcR = "idle" /\ rStatus = "TIMEOUT"
    /\ writeIndex = 1 /\ readIndex = 1 /\ totalFramesRead = 1

\* ---------------------------------------------------------------- C22
\* The waiting readNextFrame has loaded a writeIndex that shows a frame.
WaitSawFrame == pcR = "wait" /\ ~NoFrameAvailable(rIdx, rWr)

WriteCallBegins == pcW = "idle" /\ pcW' # "idle"

\* C23: the fullness check of a write call uses the readIndex the reader has
\* stored by then: a call that begins when writeIndex - readIndex < N goes on
\* to fill the slot, BUFFER_FULL is only returned by a call whose loaded
\* indices showed a full buffer, and the call that fills the slot returns OK.
C23_ReaderUnblocksProducer ==
    /\ [][WriteCallBegins =>
             /\ wIdx' = writeIndex /\ wRd' = readIndex
             /\ (~BufferFull(writeIndex, readIndex) => pcW' = "header")]_vars
    /\ [](pcW \in {"wait", "retry", "drop"} => BufferFull(wIdx, wRd))
    /\ [][(wStatus' = "BUFFER_FULL" /\ wStatus' # wStatus) => pcW = "drop"]_vars
    /\ [][(pcW \in {"header", "copy", "publish", "count"} /\ pcW' = "idle") =>
             wStatus' = "OK"]_vars

\* C23, witness: a write that began with N frames published has returned OK
\* after the sequential reader had returned OK.
C23_WriteAfterRead ==
    /\ pcW = "idle" /\ wStatus = "OK"
    /\ wEntry.writeIndex = maxFrames /\ writeIndex = maxFrames + 1
    /\ readIndex >= 1 /\ pcR = "idle" /\ rStatus = "OK"

\* ---------------------------------------------------------------- C24
\* C24: active is set only when metadataSize and the metadata JSON are
\* written, so an attacher whose initialize returned OK has the creator's
\* dataOffset, frame slot size and number of slots.
C24_AttacherSharesGeometry ==
    /\ seg.active =>
          /\ seg.metadataSize = MetadataAreaSize
          /\ seg.maxFrames = MaxFramesOf(seg.size)
          /\ seg.frameSlotSize = FrameSlotSizeOf
    /\ (att.pc = "done" /\ att.status = "OK") =>
          /\ att.dataOffset = DataOffsetOf
          /\ att.frameSlotSize = FrameSlotSizeOf
          /\ att.maxFrames = MaxFramesOf(seg.size)

\* ---------------------------------------------------------------- C25
\* C25: an attach to a segment whose active flag stays unset polls at most
\* 100 times, then returns INTERNAL_ERROR with its mapping released and the
\* handle uninitialized; unless active is set, the attach ends that way.
C25_AttachGivesUp ==
    /\ [](att.attempts <= AttachAttempts)
    /\ [](att.status = "INTERNAL_ERROR" =>
             /\ att.pc = "done" /\ att.attempts = AttachAttempts
             /\ ~att.mapped /\ ~att.isInitialized)
    /\ [][(att'.status = "INTERNAL_ERROR" /\ att.status # "INTERNAL_ERROR") =>
             ~seg.active]_vars
    /\ <>(seg.active \/ att.status = "INTERNAL_ERROR")

\* C25, witness: the attach has given up on a segment that was never activated.
C25_GaveUpOnInactive ==
    /\ att.pc = "done" /\ att.status = "INTERNAL_ERROR"
    /\ att.attempts = AttachAttempts /\ ~seg.active /\ hnd.pc = "setup"

\* ---------------------------------------------------------------- C26
\* The slot of index k holds the header and the pixel bytes write k stored.
SlotHoldsFrame(k) ==
    /\ HeaderWrittenBy(k)
    /\ PixelsWrittenBy(k, Len(published[k + 1].data))
    /\ FrameMatches(published[k + 1], HeaderAt(mem, getFrameHeader(k)),
                    ViewAt(mem, getFrameData(k), Len(published[k + 1].data)))

\* The N slots lie inside the segment.
SlotsInsideSegment == DataOffsetOf + maxFrames * FrameSlotSizeOf <= shmSize

\* C26: wherever the producer stops inside writeFrameTimeout, each of the last N
\* published indices k < writeIndex still holds the complete frame k, and
\* readNextFrame builds no frame for an index >= writeIndex.  Stated for frames
\* that fit the slot and were copied into it, in a segment that holds its slots.
C26_ProducerStopsAnywhere ==
    /\ (WritesFitAndCopied /\ SlotsInsideSegment) =>
          \A k \in 0 .. (writeIndex - 1) :
              k + maxFrames >= writeIndex => SlotHoldsFrame(k)
    /\ pcR \notin {"idle", "wait"} => rIdx < writeIndex

\* ---------------------------------------------------------------- C27
\* C27: when the creator handle has been destroyed in an orderly way the
\* control block's active flag is false, so a reader can tell a graceful
\* shutdown from a crash of the producer.
C27_ShutdownClearsActive ==
    hnd.pc = "destroyed" => ~seg.active

\* ---------------------------------------------------------------- C28
\* An invocation of the frame callback begins in this step.
InvocationBegins == ntf'.inCallback > ntf.inCallback

\* C28: the invocations of the frame callback of one handle never overlap: at
\* most one notification thread is alive and at most one invocation is in
\* progress; an invocation begins only when none is in progress, with
\* callbackMutex_ held by the notification thread; and while one is in progress
\* no register or unregister call of another thread replaces the callback or
\* starts or ends a notification thread.
C28_CallbacksNeverOverlap ==
    /\ [](ntf.live <= 1 /\ ntf.inCallback <= 1)
    /\ [](ntf.inCallback > 0 => ntf.pc = "call" /\ ntf.mutex = "watcher")
    /\ [][InvocationBegins =>
             /\ ntf.inCallback = 0
             /\ ntf.mutex = "watcher"
             /\ ntf'.delivered = Append(ntf.delivered, rHdr.sequenceNumber)]_vars
    /\ [][ntf.inCallback > 0 =>
             /\ ntf'.frameCallback = ntf.frameCallback
             /\ ntf'.live = ntf.live
             /\ ntf'.delivered = ntf.delivered]_vars

\* C28, witness: the second invocation is in progress while one thread waits
\* in the join of unregisterFrameCallback and the other has registered.
C28_InvokedDuringUnregister ==
    /\ ntf.pc = "call" /\ ntf.inCallback = 1 /\ Len(ntf.delivered) = 2
    /\ ntf.api["owner"] = "join" /\ ntf.frameCallback = 2

\* ---------------------------------------------------------------- C29
\* A notification thread is running and a callback is registered.
WatcherServing == ntf.live = 1 /\ ~ntf.stop /\ ntf.frameCallback # 0

\* Frame k was passed to the callback.
Delivered(k) == \E j \in 1 .. Len(ntf.delivered) : ntf.delivered[j] = k

\* C29: while the notification thread runs with a callback registered, every
\* published frame is eventually passed to the callback, once, and the frames
\* are passed in increasing sequenceNumber order.
C29_EveryFrameDelivered ==
    /\ [](\A j1, j2 \in 1 .. Len(ntf.delivered) :
             j1 < j2 => ntf.delivered[j1] < ntf.delivered[j2])
    /\ \A k \in 0 .. (MaxWrites - 1) :
          (writeIndex > k /\ WatcherServing) ~> (Delivered(k) \/ ~WatcherServing)

\* ---------------------------------------------------------------- C30
\* unregisterFrameCallback has set the flag and waits in join.
Joining == ntf.api["owner"] = "join"

\* The owner thread is inside unregisterFrameCallback.
Unregistering == ntf.api["owner"] \in {"unregister", "join", "relock", "clear"}

\* C30: after unregisterFrameCallback (called by a thread that is not running
\* the callback) has set stopCallbackThread_, the notification thread leaves at
\* its next test of the flag, the join ends only when it has left, the call
\* returns, and no invocation of the callback begins or is in progress between
\* that return and the next registration.
C30_Cancellation ==
    /\ [](Joining => ntf.stop /\ ntf.joinable)
    /\ [][(ntf.pc = "test" /\ ntf.stop /\ ntf'.pc # ntf.pc) => ntf'.pc = "exited"]_vars
    /\ [][(Joining /\ ~Joining') => ntf.pc = "exited" /\ ntf.live = 0]_vars
    /\ [](ntf.cancelled => ntf.inCallback = 0 /\ ntf.frameCallback = 0)
    /\ [][InvocationBegins => ~ntf.cancelled]_vars
    /\ Unregistering ~> (ntf.api["owner"] = "idle" /\ ntf.cancelled)

\* C30, witness: unregisterFrameCallback has returned after joining a
\* notification thread that had passed a frame to the callback, and a frame
\* published since then is in the ring.
C30_CancelledAfterDelivery ==
    /\ ntf.cancelled /\ ntf.api["owner"] = "idle" /\ ntf.pc = "exited" /\ ~ntf.joinable
    /\ Len(ntf.delivered) = 1 /\ writeIndex = 2

\* ---------------------------------------------------------------- C31
\* C31: an error raised by the callback is absorbed: the notification thread
\* is not ended by it.
C31_CallbackErrorAbsorbed ==
    ntf.pc # "terminated"

\* ---------------------------------------------------------------- C34
\* The destruction of the handle removes the segment's name in this step.
DestructionUnlinks ==
    /\ hnd.pc # "destroyed" /\ hnd'.pc = "destroyed"
    /\ seg.exists /\ ~seg'.exists

\* C34: the destruction of a handle removes the segment's name only if that
\* handle created the segment (create = true and initialize returned OK); the
\* destruction of an attacher or of a handle whose initialize failed removes
\* no segment.
C34_OnlyCreatorUnlinks ==
    [][DestructionUnlinks => (hnd.create /\ hnd.status = "OK")]_vars

\* ---------------------------------------------------------------- C36
\* C36: whenever neither a write call nor a read call is in progress, the
\* advisory frameCount equals writeIndex - readIndex.
C36_FrameCountDerivable ==
    (pcW = "idle" /\ pcR = "idle") => frameCount = U64Sub(writeIndex, readIndex)

\* ---------------------------------------------------------------- C38
\* No registerFrameCallback or unregisterFrameCallback call is in progress.
NoApiCall == \A t \in ApiThreads : ntf.api[t] = "idle"

\* A notification thread has been started and has not returned.
WatcherRunning == ntf.live > 0 /\ ntf.pc \notin {"none", "exited", "terminated"}

\* C38: on the initialized attacher handle, whenever no register or unregister
\* call is in progress, a notification thread is running if and only if a
\* callback is registered, and there is never more than one.
C38_WatcherIffCallback ==
    /\ ntf.live <= 1
    /\ (att.isInitialized /\ NoApiCall) => (WatcherRunning <=> ntf.frameCallback # 0)

\* ---------------------------------------------------------------- C33
\* C33: totalFramesWritten, totalFramesRead and droppedFrames of the control
\* block are lifetime counters: no step of any operation, getStatistics and
\* resetStatistics included, decreases any of them.
C33_LifetimeCounters ==
    [][/\ totalFramesWritten' >= totalFramesWritten
       /\ totalFramesRead' >= totalFramesRead
       /\ droppedFrames' >= droppedFrames]_vars

\* ---------------------------------------------------------------- C32
\* A step of an updateMetadata call that got past the NOT_INITIALIZED test.
UpdateMetadataStep ==
    /\ call'.op = "updateMetadata"
    /\ call' # call \/ meta' # meta
    /\ call'.status # "NOT_INITIALIZED"

\* The document the call serializes: the one in the area, with the new member.
UpdatedDocument == WithMember(readMetadataJson(meta), call'.arg[1], call'.arg[2])

\* C32: an updateMetadata call whose serialized document is longer than
\* metadataSize - 1 bytes returns WRITE_FAILED and leaves every byte of the
\* metadata area as it was; an accepted call returns OK and leaves in the area
\* the document, of at most metadataSize - 1 bytes, followed by a NUL.
C32_OversizeMetadataRejected ==
    [][UpdateMetadataStep =>
         IF Len(dump(UpdatedDocument)) > MetadataBytes - 1
           THEN call'.status = "WRITE_FAILED" /\ meta' = meta
           ELSE /\ call'.status = "OK"
                /\ \E i \in 1 .. MetadataBytes : meta'[i] = "NUL"
                /\ CString(meta') = dump(UpdatedDocument)
                /\ Len(CString(meta')) <= MetadataBytes - 1]_vars

\* An update was rejected while the area holds a document of exactly
\* metadataSize - 1 bytes, which an earlier update stored.
C32_RejectedAtFullArea ==
    /\ call.op = "updateMetadata"
    /\ call.status = "WRITE_FAILED"
    /\ Len(CString(meta)) = MetadataBytes - 1

\* ---------------------------------------------------------------- C35
CanonicalNames == {"YUV", "BGRA", "YUV10", "RGB10", "Unknown"}
CanonicalCodes == {1, 2, 3, 4, 255}

\* The names that stand for a format: the canonical ones and their aliases.
NamedFormats ==
    {"YUV", "YUV422", "BGRA", "RGB", "RGBA", "YUV10", "YUV422_10", "RGB10"}

\* C35: format codes round-trip.  A canonical name encoded and decoded again
\* is the same name; a code among 0x01..0x04 and 0xFF decoded and encoded
\* again is the same code; a name that stands for no format is encoded as
\* 0xFF; every other code is decoded as "Unknown".
C35_FormatRoundTrip ==
    /\ (call.op = "getFormatString" /\ Len(call.arg) = 2)
          => (call.arg[1] \in CanonicalNames => call.res = call.arg[1])
    /\ (call.op = "getFormatCode" /\ Len(call.arg) = 2)
          => (call.arg[1] \in CanonicalCodes => call.res = call.arg[1])
    /\ (call.op = "getFormatCode" /\ Len(call.arg) = 1)
          => (call.arg[1] \notin NamedFormats => call.res = 255)
    /\ (call.op = "getFormatString" /\ Len(call.arg) = 1)
          => (call.arg[1] \notin {1, 2, 3, 4} => call.res = "Unknown")

\* "BGRA" was encoded as 0x02 and decoded again.
C35_BgraThereAndBack ==
    /\ call.op = "getFormatString"
    /\ call.arg = <<"BGRA", 2>>

\* ---------------------------------------------------------------- C39
\* A status variable is left alone or takes NOT_INITIALIZED.
Refused(before, after) == after \in {before, "NOT_INITIALIZED"}

\* C39: while initialize has not returned OK on the handle (it was never
\* called, or it failed), every step of a writeFrame, writeFrameTimeout,
\* readLatestFrame, readNextFrame or updateMetadata call on it returns
\* NOT_INITIALIZED and changes neither the segment (control block, slots,
\* metadata area) nor a local of the handle; an initialize call on an initialized
\* handle returns ALREADY_EXISTS and changes neither the handle nor the
\* segment.
C39_UninitializedCallsRefused ==
    [][/\ (~hnd.isInitialized /\ hnd' = hnd) =>
             /\ Refused(wStatus, wStatus')
             /\ Refused(rStatus, rStatus')
             /\ Refused(lStatus, lStatus')
             /\ call' # call => (call'.op = "updateMetadata" /\ call'.status = "NOT_INITIALIZED")
             /\ UNCHANGED <<shmSize, dropFramesWhenFull, seg, att, cbVars, mem, meta>>
             /\ UNCHANGED <<published, writer, pcW, wFrame, wTimeout, wIdx, wRd>>
             /\ UNCHANGED <<pcR, rWait, rIdx, rWr, rCnt, rHdr, rView, lLocals>>
       /\ (call'.op = "initialize" /\ call' # call) =>
             /\ hnd.isInitialized
             /\ call'.status = "ALREADY_EXISTS"
             /\ UNCHANGED <<cfgVars, cbVars, mem, meta>>]_vars

\* The three ring calls were refused before initialize returned OK, and a
\* second initialize was then answered with ALREADY_EXISTS.
C39_RefusedThenAlreadyExists ==
    /\ wStatus = "NOT_INITIALIZED"
    /\ rStatus = "NOT_INITIALIZED"
    /\ lStatus = "NOT_INITIALIZED"
    /\ hnd.isInitialized
    /\ call.op = "initialize"
    /\ call.status = "ALREADY_EXISTS"

\* ---------------------------------------------------------------- C37
\* The ring indices of the frames readNextFrame returned OK to consumer c.
ConsumedBy(c) == {cons.rd[c].got[i] : i \in 1 .. Len(cons.rd[c].got)}

\* No frame was returned OK to both consumers, nor twice to one.
NoFrameTwice ==
    /\ ConsumedBy("first") \cap ConsumedBy("second") = {}
    /\ \A c \in Consumers : Cardinality(ConsumedBy(c)) = Len(cons.rd[c].got)

\* While no call is running, totalFramesRead is the number of distinct frames
\* consumed.
CountsDistinctFrames ==
    (\A c \in Consumers : cons.rd[c].pc = "idle")
       => totalFramesRead = Cardinality(ConsumedBy("first") \cup ConsumedBy("second"))

\* C37 as claimed: with two consumers calling readNextFrame on one segment
\* concurrently, each published frame is returned OK to at most one of them,
\* readIndex never decreases, and totalFramesRead equals the number of
\* distinct frames consumed.
C37_ConcurrentConsumers ==
    /\ []NoFrameTwice
    /\ []CountsDistinctFrames
    /\ [][readIndex' >= readIndex]_vars

\* C37, amended: the same three guarantees hold as long as no readNextFrame
\* call of one consumer has begun while a call of the other was running.
C37_ConsumersInTurn ==
    /\ [](~cons.overlapped => (NoFrameTwice /\ CountsDistinctFrames))
    /\ [][~cons.overlapped' => readIndex' >= readIndex]_vars

\* Each consumer was returned a frame, no two calls having overlapped, and no
\* call is running.
C37_EachConsumedInTurn ==
    /\ ~cons.overlapped
    /\ \A c \in Consumers : cons.rd[c].pc = "idle" /\ Len(cons.rd[c].got) >= 1

====
